---- MODULE Spec2Model ----
(***************************************************************************)
(* The submission judge of x64-masm-trainer: AssemblerService.compileAndRun *)
(* (screen, compile, link, execute, clean up) and the test-suite runner     *)
(* TestingService.executeTestSuite that drives it once per test case.       *)
(***************************************************************************)
EXTENDS Integers, Sequences, FiniteSets, TLC

\* ------------------------------------------------------------------ bounds

\* Concurrent compileAndRun invocations (call slots) in ConcSpec.
NumCalls == 2
\* Clock ticks (of 1000 ms) observed while waiting for the submitted executable.
MaxTicks == 2
\* Test cases in a suite.
MaxCases == 2
\* Runs of findML64Path / findLinkPath that are counted.
MaxLookups == 2
\* Attempts that column user_progress.attempts counts.
MaxAttempts == 3

\* ------------------------------------------------------- program constants

\* compileAndRun: timeout = 5000 when the options give none.
DefaultTimeout == 5000
\* validateCode: code.length > 50 * 1024 is rejected.
MaxCodeSize == 50 * 1024

\* ------------------------------------------------------------ source texts

\* A source text is its sequence of words (separated by white space; a comma
\* is a word of its own) and its length in characters.
Src(ws, n) == [words |-> ws, length |-> n]

NoCode == Src(<<>>, 0)

\* String.prototype.toLowerCase on the words of the model (the patterns carry /i).
ToLowerWord(w) ==
    CASE w = "HLT" -> "hlt"
      [] w = "MOV" -> "mov"
      [] w = "CR0" -> "cr0"
      [] OTHER -> w

\* \b(w1|w2|...)\b : one of the words occurs.
HasWord(ws, S) == \E i \in 1..Len(ws) : ToLowerWord(ws[i]) \in S

\* \b(a\s+b)\b : word a is followed, after white space only, by a word of B.
HasPair(ws, a, B) ==
    \E i \in 1..(Len(ws) - 1) : ToLowerWord(ws[i]) = a /\ ToLowerWord(ws[i + 1]) \in B

\* validateCode: dangerousPatterns[k].test(code), k = 1..6.
MatchesPattern(k, ws) ==
    CASE k = 1 -> HasPair(ws, "int", {"0x80", "0x2e"})
      [] k = 2 -> HasWord(ws, {"syscall", "sysenter"})
      [] k = 3 -> \/ HasWord(ws, {"hlt", "cli", "sti"})
                  \/ HasPair(ws, "in", {"eax"})
                  \/ HasPair(ws, "out", {"eax"})
      [] k = 4 -> HasPair(ws, "mov", {"cr0", "cr3", "cr4"})
      [] k = 5 -> HasWord(ws, {"rdmsr", "wrmsr"})
      [] k = 6 -> HasWord(ws, {"lgdt", "lidt", "sgdt", "sidt"})

dangerousPatterns == 1..6

\* validateCode with the size check inside the `if (!allowSystemCalls)` block.
validateCode_SizeUnlessAllowed(code, allowSystemCalls) ==
    IF allowSystemCalls THEN "ok"
    ELSE IF \E k \in dangerousPatterns : MatchesPattern(k, code.words) THEN "dangerous"
    ELSE IF code.length > MaxCodeSize THEN "too_large" ELSE "ok"

\* validateCode(code, allowSystemCalls): "ok", or the error it throws.
validateCode(code, allowSystemCalls) ==
    IF ~allowSystemCalls /\ \E k \in dangerousPatterns : MatchesPattern(k, code.words)
    THEN "dangerous"
    ELSE IF code.length > MaxCodeSize THEN "too_large" ELSE "ok"

\* The message of the Error validateCode throws.
ValidateMessage(v) ==
    IF v = "dangerous"
    THEN <<"Code contains potentially dangerous instructions that are not allowed in the learning environment.">>
    ELSE <<"Code is too large. Please keep your program under 50KB.">>

\* The submissions of the model.
Sources ==
    { Src(<<"mov", "rax", ",", "0", "ret">>, 60),
      Src(<<"hlt", "ret">>, 40),
      Src(<<"int", "0x80">>, 40),
      Src(<<"MOV", "CR0", ",", "rax">>, 40),
      Src(<<"int", "80h", "ret">>, 40),
      Src(<<"mov", "rax", ",", "cr0", "ret">>, 40),
      Src(<<"nop", "ret">>, MaxCodeSize),
      Src(<<"nop", "ret">>, MaxCodeSize + 1),
      Src(<<"syscall">>, MaxCodeSize + 1) }

\* ------------------------------------------------------------------- texts

\* A message is a sequence of its parts; the empty string is <<>>.
Empty == <<>>

\* ------------------------------------------------------------- environment

Calls == 1..NumCalls

Tools == {"ml64", "link"}

\* What one run of the compiler or linker under execAsync(cmd, {timeout})
\* shows: how it ended (killed: the timeout expired and exec killed it),
\* its stderr, and whether its stdout includes 'assembling'.
ToolRuns ==
    [status : {"exit0", "exit1", "killed"},
     stderr : {Empty, <<"program.asm(4) : error A2008">>},
     assembling : BOOLEAN]

\* How the submitted executable behaves.
Behaviours == {"exits", "loops", "reads_stdin"}

\* Standard output and standard error of the submitted executable.
Outputs == {"", "42"}
ErrOutputs == {Empty, <<"fault">>}
ExitCodes == {0, 1}

\* The exceptions thrown while spawning or writing to the child's stdin: the
\* message and error.code ("none" when the Error carries no code).
SpawnErrors == {[message |-> <<"The argument 'chunk' is invalid">>, code |-> "none"]}

\* ------------------------------------------------------------------- state

VARIABLES
    calls,      \* per invocation of compileAndRun: its locals and position
    dirs,       \* the build directories that exist under tempDir
    files,      \* the files in them: [dir, name, by]
    ml64Path,   \* AssemblerService.ml64Path ("" while unset)
    linkPath,   \* AssemblerService.linkPath ("" while unset)
    installed,  \* the host: where each tool is installed
    suite,      \* the run of executeTestSuite: its locals and position
    syntax,     \* the run of validateSyntax: its locals and position
    probe,      \* a call of a pure function: its arguments and its result
    lookups,    \* how often findML64Path / findLinkPath ran, up to MaxLookups
    user_progress,  \* the row of table user_progress for one user and lesson
    updates     \* per call of submitExercise: its locals and position

vars == <<calls, dirs, files, ml64Path, linkPath, installed, suite, syntax, probe, lookups,
          user_progress, updates>>

NoResult ==
    [kind |-> "none", success |-> FALSE, output |-> "", error |-> Empty,
     executionTime |-> 0, exitCode |-> 0]

\* An AssemblyResult the call resolves with.
Result(s, out, err, t, x) ==
    [kind |-> "resolved", success |-> s, output |-> out, error |-> err,
     executionTime |-> t, exitCode |-> x]

NoStage == [state |-> "none", success |-> FALSE, error |-> Empty]
Stage(s, err) == [state |-> "done", success |-> s, error |-> err]

IdleCall ==
    [pc |-> "idle", code |-> NoCode, input |-> "", allow |-> FALSE, timeout |-> 0,
     buildId |-> "none", dirCreated |-> FALSE, screened |-> "none",
     spawned |-> {}, compileResult |-> NoStage, linkResult |-> NoStage,
     toolStderr |-> Empty,
     child |-> "none", behaviour |-> "none", stdinClosed |-> FALSE, clock |-> 0,
     childCode |-> 0,
     touched |-> {}, cleanup |-> "none", pending |-> NoResult, outcome |-> NoResult]

\* executeTestSuite before it is called.
IdleSuite ==
    [pc |-> "idle", code |-> NoCode, testCases |-> <<>>,
     configuration |-> [timeout |-> 0, allowSystemCalls |-> FALSE, testType |-> "none"],
     index |-> 0, invoked |-> <<>>, judged |-> <<>>, results |-> <<>>,
     exerciseCases |-> <<>>, submitted |-> <<>>,
     summary |-> [totalTests |-> 0, passedTests |-> 0, failedTests |-> 0]]

\* validateSyntax before it is called.
IdleSyntax ==
    [pc |-> "idle", code |-> NoCode, buildId |-> "none", dirCreated |-> FALSE,
     written |-> FALSE, spawned |-> {}, cleanup |-> "none",
     pending |-> [kind |-> "none", valid |-> FALSE, errors |-> <<>>, warnings |-> <<>>],
     outcome |-> [kind |-> "none", valid |-> FALSE, errors |-> <<>>, warnings |-> <<>>]]

\* No pure function is being called.
NoProbe == [op |-> "none"]

\* Table user_progress holds no row for the user and the lesson.
NoProgress ==
    [exists |-> FALSE, completed |-> FALSE, score |-> 0, attempts |-> 0,
     completed_exercises |-> <<>>]

\* submitExercise before it is called.
IdleUpdate ==
    [pc |-> "idle", exerciseId |-> "none", passed |-> FALSE, score |-> 0,
     existingProgress |-> NoProgress, settled |-> "none"]

Init ==
    /\ calls = [c \in Calls |-> IdleCall]
    /\ dirs = {}
    /\ files = {}
    /\ ml64Path = ""
    /\ linkPath = ""
    /\ installed \in [Tools -> {"known", "where", "path", "none"}]
    /\ suite = IdleSuite
    /\ syntax = IdleSyntax
    /\ probe = NoProbe
    /\ lookups = [t \in Tools |-> 0]
    /\ user_progress = NoProgress
    /\ updates = [s \in Calls |-> IdleUpdate]

\* ------------------------------------------------------ toolchain location

\* findML64Path / findLinkPath: the path found at a well-known place, by
\* `where` or on PATH; "" when the function throws.
findML64Path(inst) ==
    CASE inst["ml64"] = "known" -> "C:/VS/2022/Community/ml64.exe"
      [] inst["ml64"] = "where" -> "D:/tools/ml64.exe"
      [] inst["ml64"] = "path" -> "ml64.exe"
      [] OTHER -> ""

findLinkPath(inst) ==
    CASE inst["link"] = "known" -> "C:/VS/2022/Community/link.exe"
      [] inst["link"] = "where" -> "D:/tools/link.exe"
      [] inst["link"] = "path" -> "link.exe"
      [] OTHER -> ""

\* ensurePaths: the two cached paths afterwards, the tools findML64Path /
\* findLinkPath were run for, and the message of the Error it throws (Empty
\* when it returns).
ensurePaths(m, l, inst) ==
    LET m1 == IF m = "" THEN findML64Path(inst) ELSE m
        looked == IF m = "" THEN {"ml64"} ELSE {}
    IN  IF m1 = ""
        THEN [ml64 |-> m, link |-> l, looked |-> looked,
              error |-> <<"ML64.exe not found. Please install Visual Studio with C++ build tools.">>]
        ELSE LET l1 == IF l = "" THEN findLinkPath(inst) ELSE l
                 both == IF l = "" THEN looked \cup {"link"} ELSE looked
             IN  IF l1 = ""
                 THEN [ml64 |-> m1, link |-> l, looked |-> both,
                       error |-> <<"LINK.exe not found. Please install Visual Studio with C++ build tools.">>]
                 ELSE [ml64 |-> m1, link |-> l1, looked |-> both, error |-> Empty]

\* compileAssembly, after the compiler has run.
compileAssembly(cmd, run) ==
    IF run.status # "exit0" THEN Stage(FALSE, <<"Command failed: ", cmd>> \o run.stderr)
    ELSE IF run.stderr # Empty /\ ~run.assembling THEN Stage(FALSE, run.stderr)
    ELSE Stage(TRUE, Empty)

\* linkObject, after the linker has run.
linkObject(cmd, run) ==
    IF run.status # "exit0" THEN Stage(FALSE, <<"Command failed: ", cmd>> \o run.stderr)
    ELSE IF run.stderr # Empty THEN Stage(FALSE, run.stderr)
    ELSE Stage(TRUE, Empty)

\* ---------------------------------------------------------- compileAndRun

Set(c, r) == calls' = [calls EXCEPT ![c] = r]

\* buildDir = path.join(this.tempDir, buildId)
buildDir(c) == calls[c].buildId

\* The files of the call: path.join(buildDir, 'program.asm') and so on.
asmFile(c) == [dir |-> buildDir(c), name |-> "program.asm"]
objFile(c) == [dir |-> buildDir(c), name |-> "program.obj"]
exeFile(c) == [dir |-> buildDir(c), name |-> "program.exe"]

FilesOf(d) == {f \in files : f.dir = d}
At(path) == {f \in files : f.dir = path.dir /\ f.name = path.name}

\* fs.writeFile / a tool writing its output: the file is replaced.
WithFile(path, c) ==
    (files \ At(path)) \cup {[dir |-> path.dir, name |-> path.name, by |-> c]}

\* Removed with fs.remove(this.tempDir): every build directory goes.
Removed_TempDir(c) == dirs \cup {buildDir(c)}

\* The directories fs.remove(buildDir) removes, with all they hold.
Removed(c) == {buildDir(c)}

\* Invocation c reads or writes the files fs: those another invocation, still
\* running, has written into its own build directory are noted as touched.
Touch(r, c, fs) ==
    LET foreign == {f.dir : f \in {g \in fs : /\ g.by # c
                                              /\ calls[g.by].pc \notin {"idle", "done"}
                                              /\ calls[g.by].buildId = g.dir}}
    IN  [r EXCEPT !.touched = @ \cup foreign]

\* The catch clause of compileAndRun: the value it returns, its error being
\* `Internal error: ${error}` for an Error with message msg.
Caught(msg) == Result(FALSE, "", <<"Internal error: ", "Error: ">> \o msg, 0, 1)

\* compileAndRun is called: the options are destructured and buildId is drawn
\* from Date.now() and Math.random().toString(36).substr(2, 9), so that two
\* invocations can draw the same one.
Invoke(c, codes, inputs, allows, timeouts) ==
    /\ calls[c].pc = "idle"
    /\ \E code \in codes, input \in inputs, allow \in allows,
          timeout \in timeouts, id \in {"build_t1_r1", "build_t1_r2"} :
          Set(c, [IdleCall EXCEPT !.pc = "ensureDir", !.code = code, !.input = input,
                                  !.allow = allow, !.timeout = timeout, !.buildId = id])
    /\ UNCHANGED <<dirs, files, ml64Path, linkPath, installed, syntax, probe, lookups, user_progress, updates>>

\* await fs.ensureDir(buildDir)
EnsureDir(c) ==
    /\ calls[c].pc = "ensureDir"
    /\ dirs' = dirs \cup {buildDir(c)}
    /\ Set(c, [calls[c] EXCEPT !.pc = "validate", !.dirCreated = TRUE])
    /\ UNCHANGED <<files, ml64Path, linkPath, installed, suite, syntax, probe, lookups, user_progress, updates>>

\* fs.ensureDir rejects (the temp directory cannot be written): caught.
EnsureDirFails(c) ==
    /\ calls[c].pc = "ensureDir"
    /\ Set(c, [calls[c] EXCEPT !.pc = "finally",
                               !.pending = Caught(<<"EACCES: permission denied, mkdir">>)])
    /\ UNCHANGED <<dirs, files, ml64Path, linkPath, installed, suite, syntax, probe, lookups, user_progress, updates>>

\* ValidateCode with the await dropped: the rejection is not waited for and
\* the call goes on to write and compile the source.
ValidateCode_NotAwaited(c) ==
    /\ calls[c].pc = "validate"
    /\ Set(c, [calls[c] EXCEPT !.pc = "writeAsm",
                               !.screened = validateCode(calls[c].code, calls[c].allow)])
    /\ UNCHANGED <<dirs, files, ml64Path, linkPath, installed, suite, syntax, probe, lookups, user_progress, updates>>

\* await this.validateCode(code, allowSystemCalls); a throw is caught below.
ValidateCode(c) ==
    /\ calls[c].pc = "validate"
    /\ LET v == validateCode(calls[c].code, calls[c].allow)
       IN  IF v = "ok"
           THEN Set(c, [calls[c] EXCEPT !.pc = "writeAsm", !.screened = "ok"])
           ELSE Set(c, [calls[c] EXCEPT !.pc = "finally", !.screened = v,
                                        !.pending = Caught(ValidateMessage(v))])
    /\ UNCHANGED <<dirs, files, ml64Path, linkPath, installed, suite, syntax, probe, lookups, user_progress, updates>>

\* await fs.writeFile(asmFile, code); it rejects when buildDir is gone.
WriteAsm(c) ==
    /\ calls[c].pc = "writeAsm"
    /\ IF asmFile(c).dir \in dirs
       THEN /\ files' = WithFile(asmFile(c), c)
            /\ Set(c, Touch([calls[c] EXCEPT !.pc = "compile"], c, At(asmFile(c))))
       ELSE /\ files' = files
            /\ Set(c, [calls[c] EXCEPT !.pc = "finally",
                                       !.pending = Caught(<<"ENOENT: no such file or directory, open">>)])
    /\ UNCHANGED <<dirs, ml64Path, linkPath, installed, suite, syntax, probe, lookups, user_progress, updates>>

\* compileAssembly up to execAsync: getML64Path() resolves the paths; when it
\* throws, the catch of compileAssembly turns the Error into a failed stage.
CompileStart(c) ==
    /\ calls[c].pc = "compile"
    /\ LET e == ensurePaths(ml64Path, linkPath, installed)
       IN  /\ ml64Path' = e.ml64
           /\ linkPath' = e.link
           /\ lookups' = [t \in Tools |->
                            IF t \in e.looked /\ lookups[t] < MaxLookups
                            THEN lookups[t] + 1 ELSE lookups[t]]
           /\ IF e.error = Empty
              THEN Set(c, Touch([calls[c] EXCEPT !.pc = "compileWait",
                                                 !.spawned = @ \cup {"ml64"}],
                                c, At(asmFile(c))))
              ELSE Set(c, [calls[c] EXCEPT !.pc = "compiled",
                                           !.compileResult = Stage(FALSE, e.error)])
    /\ UNCHANGED <<dirs, files, installed, suite, syntax, probe, user_progress, updates>>

\* execAsync(compileCmd, {timeout: 10000}) settles.
CompileDone(c, runs) ==
    /\ calls[c].pc = "compileWait"
    /\ \E run \in runs :
          LET wrote == run.status = "exit0" /\ objFile(c).dir \in dirs
          IN  /\ Set(c, Touch([calls[c] EXCEPT !.pc = "compiled", !.toolStderr = run.stderr,
                                     !.compileResult = compileAssembly(ml64Path, run)],
                              c, IF wrote THEN At(objFile(c)) ELSE {}))
              /\ files' = IF wrote THEN WithFile(objFile(c), c) ELSE files
    /\ UNCHANGED <<dirs, ml64Path, linkPath, installed, suite, syntax, probe, lookups, user_progress, updates>>

\* AfterCompile without the early return: a failed compilation goes on to link.
AfterCompile_NoEarlyReturn(c) ==
    /\ calls[c].pc = "compiled"
    /\ Set(c, [calls[c] EXCEPT !.pc = "link"])
    /\ UNCHANGED <<dirs, files, ml64Path, linkPath, installed, suite, syntax, probe, lookups, user_progress, updates>>

\* if (!compileResult.success) return {...}; otherwise go on to link.
AfterCompile(c) ==
    /\ calls[c].pc = "compiled"
    /\ IF ~calls[c].compileResult.success
       THEN Set(c, [calls[c] EXCEPT !.pc = "finally",
                       !.pending = Result(FALSE, "",
                                          IF calls[c].compileResult.error = Empty
                                          THEN <<"Compilation failed">>
                                          ELSE calls[c].compileResult.error,
                                          calls[c].clock, 1)])
       ELSE Set(c, [calls[c] EXCEPT !.pc = "link"])
    /\ UNCHANGED <<dirs, files, ml64Path, linkPath, installed, suite, syntax, probe, lookups, user_progress, updates>>

\* linkObject up to execAsync.
LinkStart(c) ==
    /\ calls[c].pc = "link"
    /\ LET e == ensurePaths(ml64Path, linkPath, installed)
       IN  /\ ml64Path' = e.ml64
           /\ linkPath' = e.link
           /\ lookups' = [t \in Tools |->
                            IF t \in e.looked /\ lookups[t] < MaxLookups
                            THEN lookups[t] + 1 ELSE lookups[t]]
           /\ IF e.error = Empty
              THEN Set(c, Touch([calls[c] EXCEPT !.pc = "linkWait", !.toolStderr = Empty,
                                                 !.spawned = @ \cup {"link"}],
                                c, At(objFile(c))))
              ELSE Set(c, [calls[c] EXCEPT !.pc = "linked", !.toolStderr = Empty,
                                           !.linkResult = Stage(FALSE, e.error)])
    /\ UNCHANGED <<dirs, files, installed, suite, syntax, probe, user_progress, updates>>

\* execAsync(linkCmd, {timeout: 10000}) settles.
LinkDone(c, runs) ==
    /\ calls[c].pc = "linkWait"
    /\ \E run \in runs :
          LET wrote == run.status = "exit0" /\ exeFile(c).dir \in dirs
          IN  /\ Set(c, Touch([calls[c] EXCEPT !.pc = "linked", !.toolStderr = run.stderr,
                                     !.linkResult = linkObject(linkPath, run)],
                              c, IF wrote THEN At(exeFile(c)) ELSE {}))
              /\ files' = IF wrote THEN WithFile(exeFile(c), c) ELSE files
    /\ UNCHANGED <<dirs, ml64Path, linkPath, installed, suite, syntax, probe, lookups, user_progress, updates>>

\* if (!linkResult.success) return {...}; otherwise go on to execute.
AfterLink(c) ==
    /\ calls[c].pc = "linked"
    /\ IF ~calls[c].linkResult.success
       THEN Set(c, [calls[c] EXCEPT !.pc = "finally",
                       !.pending = Result(FALSE, "",
                                          IF calls[c].linkResult.error = Empty
                                          THEN <<"Linking failed">>
                                          ELSE calls[c].linkResult.error,
                                          calls[c].clock, 1)])
       ELSE Set(c, [calls[c] EXCEPT !.pc = "spawn"])
    /\ UNCHANGED <<dirs, files, ml64Path, linkPath, installed, suite, syntax, probe, lookups, user_progress, updates>>

\* --------------------------------------------------------- executeProgram

\* The catch clause of executeProgram: the value it returns for a thrown error.
executeProgramCatch(err) ==
    [success |-> FALSE,
     output |-> "",
     error |-> CASE err.code = "ETIMEDOUT" ->
                        <<"Program execution timed out. Check for infinite loops.">>
                 [] err.code = "ENOBUFS" ->
                        <<"Program used too much memory or produced too much output.">>
                 [] OTHER -> err.message,
     exitCode |-> IF err.code = "none" THEN 1 ELSE err.code]

\* executeProgram reporting the child's own exit code.
executeProgramClosed_ReportsCode(stdout, stderr, code) ==
    [success |-> TRUE, output |-> stdout, error |-> stderr, exitCode |-> code]

\* executeProgram reporting the child's exit code and failing on a non-zero one.
executeProgramClosed_ExitCodeFails(stdout, stderr, code) ==
    [success |-> code = 0, output |-> stdout, error |-> stderr, exitCode |-> code]

\* The value executeProgram returns once the child's 'close' event has fired.
executeProgramClosed(stdout, stderr, code) ==
    [success |-> TRUE, output |-> stdout, error |-> stderr, exitCode |-> 0]

\* compileAndRun: the AssemblyResult built from runResult
\* (output: runResult.output || '', exitCode: runResult.exitCode || 0).
FromRun(run, executionTime) ==
    Result(run.success, run.output, run.error, executionTime, run.exitCode)

\* spawn(exeFile, [], {cwd, stdio: pipe}); if (input) { write; end }: the
\* input, unless it is the empty string, is written and stdin ended; then the 'close' event is awaited.
Spawn(c, behaviours) ==
    /\ calls[c].pc = "spawn"
    /\ \E b \in behaviours :
          Set(c, Touch([calls[c] EXCEPT !.pc = "execWait", !.spawned = @ \cup {"exe"},
                                        !.child = "running", !.behaviour = b,
                                        !.stdinClosed = (calls[c].input # "")],
                       c, At(exeFile(c))))
    /\ UNCHANGED <<dirs, files, ml64Path, linkPath, installed, suite, syntax, probe, lookups, user_progress, updates>>

\* spawn or stdin.write throws: the catch of executeProgram makes it a result.
SpawnThrows(c) ==
    /\ calls[c].pc = "spawn"
    /\ \E err \in SpawnErrors :
          Set(c, [calls[c] EXCEPT !.pc = "finally",
                                  !.pending = FromRun(executeProgramCatch(err), calls[c].clock)])
    /\ UNCHANGED <<dirs, files, ml64Path, linkPath, installed, suite, syntax, probe, lookups, user_progress, updates>>

\* Time passes while the 'close' event is awaited.
Tick(c) ==
    /\ calls[c].pc = "execWait"
    /\ calls[c].child = "running"
    /\ calls[c].clock < MaxTicks * 1000
    /\ Set(c, [calls[c] EXCEPT !.clock = @ + 1000])
    /\ UNCHANGED <<dirs, files, ml64Path, linkPath, installed, suite, syntax, probe, lookups, user_progress, updates>>

\* The child comes to its end by itself (one reading stdin to end-of-file
\* only once stdin was ended) and its streams close: child.on('close') resolves the
\* promise, executeProgram returns and compileAndRun builds its result.
ChildClose(c, outs, errs, codes) ==
    /\ calls[c].pc = "execWait"
    /\ calls[c].child = "running"
    /\ \/ calls[c].behaviour = "exits"
       \/ calls[c].behaviour = "reads_stdin" /\ calls[c].stdinClosed
    /\ \E out \in outs, err \in errs, code \in codes :
          Set(c, [calls[c] EXCEPT !.pc = "finally", !.child = "exited", !.childCode = code,
                     !.pending = FromRun(executeProgramClosed(out, err, code), calls[c].clock)])
    /\ UNCHANGED <<dirs, files, ml64Path, linkPath, installed, suite, syntax, probe, lookups, user_progress, updates>>

\* Finally with the removal at the end of the try block instead: it is
\* skipped by every early return and by the catch clause.
Finally_OnlyAfterRun(c) ==
    /\ calls[c].pc = "finally"
    /\ IF "exe" \in calls[c].spawned
       THEN /\ dirs' = dirs \ Removed(c)
            /\ files' = {f \in files : f.dir \notin Removed(c)}
            /\ Set(c, [calls[c] EXCEPT !.pc = "done", !.cleanup = "removed",
                                       !.outcome = calls[c].pending])
       ELSE /\ UNCHANGED <<dirs, files>>
            /\ Set(c, [calls[c] EXCEPT !.pc = "done", !.outcome = calls[c].pending])
    /\ UNCHANGED <<ml64Path, linkPath, installed, suite, syntax, probe, lookups, user_progress, updates>>

\* finally { try { await fs.remove(buildDir) } catch { console.warn } }, and
\* the call resolves with the value the try or the catch block returned.
Finally(c) ==
    /\ calls[c].pc = "finally"
    /\ dirs' = dirs \ Removed(c)
    /\ files' = {f \in files : f.dir \notin Removed(c)}
    /\ Set(c, Touch([calls[c] EXCEPT !.pc = "done", !.cleanup = "removed",
                                     !.outcome = calls[c].pending],
                    c, {f \in files : f.dir \in Removed(c)}))
    /\ UNCHANGED <<ml64Path, linkPath, installed, suite, syntax, probe, lookups, user_progress, updates>>

\* FinallyRemoveFails without the inner try/catch: the rejection of fs.remove
\* replaces the result of the call.
FinallyRemoveFails_Raises(c) ==
    /\ calls[c].pc = "finally"
    /\ buildDir(c) \in dirs
    /\ Set(c, [calls[c] EXCEPT !.pc = "done", !.cleanup = "failed",
                               !.outcome = [kind |-> "rejected", success |-> FALSE,
                                            output |-> "",
                                            error |-> <<"EBUSY: resource busy or locked, rmdir">>,
                                            executionTime |-> 0, exitCode |-> 1]])
    /\ UNCHANGED <<dirs, files, ml64Path, linkPath, installed, suite, syntax, probe, lookups, user_progress, updates>>

\* fs.remove rejects (a file of the directory is still in use): only logged.
FinallyRemoveFails(c) ==
    /\ calls[c].pc = "finally"
    /\ buildDir(c) \in dirs
    /\ Set(c, [calls[c] EXCEPT !.pc = "done", !.cleanup = "failed",
                               !.outcome = calls[c].pending])
    /\ UNCHANGED <<dirs, files, ml64Path, linkPath, installed, suite, syntax, probe, lookups, user_progress, updates>>

\* The caller has the result; the slot is free for the next invocation.
Return(c) ==
    /\ calls[c].pc = "done"
    /\ Set(c, IdleCall)
    /\ UNCHANGED <<dirs, files, ml64Path, linkPath, installed, syntax, probe, lookups, user_progress, updates>>

\* A client other than the test-suite runner calls compileAndRun.
Call(c, codes, inputs, allows, timeouts) ==
    Invoke(c, codes, inputs, allows, timeouts) /\ UNCHANGED suite

\* That client has its result.
Deliver(c) == Return(c) /\ UNCHANGED suite

\* ---------------------------------------------------------- specifications

\* One client calling compileAndRun, one call after the other.
Caller == CHOOSE c \in Calls : \A d \in Calls : c <= d

Next ==
    \/ Call(Caller, Sources, {"", "7"}, BOOLEAN, {1000, DefaultTimeout})
    \/ EnsureDir(Caller)
    \/ EnsureDirFails(Caller)
    \/ ValidateCode(Caller)
    \/ WriteAsm(Caller)
    \/ CompileStart(Caller)
    \/ CompileDone(Caller, ToolRuns)
    \/ AfterCompile(Caller)
    \/ LinkStart(Caller)
    \/ LinkDone(Caller, ToolRuns)
    \/ AfterLink(Caller)
    \/ Spawn(Caller, Behaviours)
    \/ SpawnThrows(Caller)
    \/ Tick(Caller)
    \/ ChildClose(Caller, Outputs, ErrOutputs, ExitCodes)
    \/ Finally(Caller)
    \/ FinallyRemoveFails(Caller)
    \/ Deliver(Caller)

Spec == Init /\ [][Next]_vars

\* The source every concurrent invocation submits.
SameSource == Src(<<"mov", "rax", ",", "0", "ret">>, 60)

\* The tool runs of the concurrent invocations: assembled or linked, or failed.
PlainRuns ==
    {[status |-> "exit0", stderr |-> Empty, assembling |-> TRUE],
     [status |-> "exit1", stderr |-> <<"program.asm(4) : error A2008">>, assembling |-> FALSE]}

\* The tool runs that end well and print nothing.
CleanRuns == {[status |-> "exit0", stderr |-> Empty, assembling |-> TRUE]}

\* A host with the toolchain at one of possiblePaths.
ConcInit ==
    /\ calls = [c \in Calls |-> IdleCall]
    /\ dirs = {}
    /\ files = {}
    /\ ml64Path = ""
    /\ linkPath = ""
    /\ installed = [t \in Tools |-> "known"]
    /\ suite = IdleSuite
    /\ syntax = IdleSyntax
    /\ probe = NoProbe
    /\ lookups = [t \in Tools |-> 0]
    /\ user_progress = NoProgress
    /\ updates = [s \in Calls |-> IdleUpdate]

\* NumCalls clients calling compileAndRun with the same source at any time.
ConcSpec ==
    /\ ConcInit
    /\ [][
        \E c \in Calls :
            \/ Call(c, {SameSource}, {""}, {FALSE}, {DefaultTimeout})
            \/ EnsureDir(c)
            \/ ValidateCode(c)
            \/ WriteAsm(c)
            \/ CompileStart(c)
            \/ CompileDone(c, CleanRuns)
            \/ AfterCompile(c)
            \/ LinkStart(c)
            \/ LinkDone(c, CleanRuns)
            \/ AfterLink(c)
            \/ Spawn(c, {"exits"})
            \/ ChildClose(c, {"42"}, {Empty}, {0})
            \/ Finally(c)
            \/ Deliver(c)
       ]_vars

\* The program's own steps and the ends of the processes that do end: the
\* event loop runs every continuation, execAsync's timeout settles the
\* compiler and the linker, and a child that can exit does.
Progress ==
    \/ EnsureDir(Caller)
    \/ ValidateCode(Caller)
    \/ WriteAsm(Caller)
    \/ CompileStart(Caller)
    \/ CompileDone(Caller, ToolRuns)
    \/ AfterCompile(Caller)
    \/ LinkStart(Caller)
    \/ LinkDone(Caller, ToolRuns)
    \/ AfterLink(Caller)
    \/ Spawn(Caller, Behaviours)
    \/ ChildClose(Caller, Outputs, ErrOutputs, ExitCodes)
    \/ Finally(Caller)

FairSpec == Init /\ [][Next]_vars /\ WF_vars(Progress)

\* --------------------------------------------------------- TestingService

TestTypes ==
    {"output_validation", "unit_test", "performance_test", "memory_test",
     "security_test", "code_quality"}

\* An output string is the sequence of its characters.
Chars(str) ==
    CASE str = "" -> <<>>
      [] str = "42" -> <<"4", "2">>
      [] str = "42.0" -> <<"4", "2", ".", "0">>
      [] str = "42.0009" -> <<"4", "2", ".", "0", "0", "0", "9">>
      [] str = "42.002" -> <<"4", "2", ".", "0", "0", "2">>
      [] str = "43" -> <<"4", "3">>
      [] str = " 42 " -> <<" ", "4", "2", " ">>
      [] str = "42 ok" -> <<"4", "2", " ", "o", "k">>
      [] str = "Hello" -> <<"H", "e", "l", "l", "o">>
      [] str = "hello" -> <<"h", "e", "l", "l", "o">>
      [] str = "hello\n" -> <<"h", "e", "l", "l", "o", "\n">>
      [] str = "Infinity" -> <<"I", "n", "f", "i", "n", "i", "t", "y">>
      [] str = " Infinity" -> <<" ", "I", "n", "f", "i", "n", "i", "t", "y">>
      [] str = "infinity" -> <<"i", "n", "f", "i", "n", "i", "t", "y">>
      [] str = " infinity" -> <<" ", "i", "n", "f", "i", "n", "i", "t", "y">>
      [] str = "0" -> <<"0">>
      [] str = "1" -> <<"1">>
      [] str = "1001" -> <<"1", "0", "0", "1">>
      [] str = "t1" -> <<"t", "1">>
      [] str = "hidden_1" -> <<"h", "i", "d", "d", "e", "n", "_", "1">>
      [] str = "hidden" -> <<"h", "i", "d", "d", "e", "n">>
      [] str = ";" -> <<";">>
      [] str = "," -> <<",">>
      [] str = ".code" -> <<".", "c", "o", "d", "e">>
      [] str = ".data" -> <<".", "d", "a", "t", "a">>
      [] str = "main" -> <<"m", "a", "i", "n">>
      [] str = "done" -> <<"d", "o", "n", "e">>
      [] str = "sum" -> <<"s", "u", "m">>
      [] str = "PROC" -> <<"P", "R", "O", "C">>
      [] str = "ENDP" -> <<"E", "N", "D", "P">>
      [] str = "END" -> <<"E", "N", "D">>
      [] str = "proc" -> <<"p", "r", "o", "c">>
      [] str = "endp" -> <<"e", "n", "d", "p">>
      [] str = "mov" -> <<"m", "o", "v">>
      [] str = "MOV" -> <<"M", "O", "V">>
      [] str = "cmp" -> <<"c", "m", "p">>
      [] str = "ret" -> <<"r", "e", "t">>
      [] str = "je" -> <<"j", "e">>
      [] str = "jne" -> <<"j", "n", "e">>
      [] str = "jg" -> <<"j", "g">>
      [] str = "jl" -> <<"j", "l">>
      [] str = "jle" -> <<"j", "l", "e">>
      [] str = "rax" -> <<"r", "a", "x">>
      [] str = "rbx" -> <<"r", "b", "x">>
      [] str = "rcx" -> <<"r", "c", "x">>
      [] str = "rdx" -> <<"r", "d", "x">>
      [] str = "RAX" -> <<"R", "A", "X">>
      [] str = "error" -> <<"e", "r", "r", "o", "r">>
      [] str = "warning" -> <<"w", "a", "r", "n", "i", "n", "g">>
      [] str = " error A2008" -> <<" ", "e", "r", "r", "o", "r", " ", "A", "2", "0", "0", "8">>
      [] str = "warning A4014" ->
            <<"w", "a", "r", "n", "i", "n", "g", " ", "A", "4", "0", "1", "4">>
      [] str = "warning: error level 2" ->
            <<"w", "a", "r", "n", "i", "n", "g", ":", " ", "e", "r", "r", "o", "r", " ",
              "l", "e", "v", "e", "l", " ", "2">>
      [] str = "Assembling" -> <<"A", "s", "s", "e", "m", "b", "l", "i", "n", "g">>

\* The output strings of the model (closed under trim and toLowerCase).
Texts ==
    {"", "42", "42.0", "42.0009", "42.002", "43", " 42 ", "42 ok", "Hello", "hello",
     "hello\n", "Infinity", " Infinity", "infinity", " infinity"}

\* The string with the given characters.
Text(cs) == CHOOSE str \in Texts : Chars(str) = cs

\* The value of each decimal digit.
DigitValue ==
    LET digits == <<"0", "1", "2", "3", "4", "5", "6", "7", "8", "9">>
    IN  [ch \in {digits[i] : i \in 1..10} |-> (CHOOSE i \in 1..10 : digits[i] = ch) - 1]

\* The lower-case letter of each upper-case letter.
LowerOf ==
    LET upper == <<"A", "B", "C", "D", "E", "F", "G", "H", "I", "J", "K", "L", "M",
                   "N", "O", "P", "Q", "R", "S", "T", "U", "V", "W", "X", "Y", "Z">>
        lower == <<"a", "b", "c", "d", "e", "f", "g", "h", "i", "j", "k", "l", "m",
                   "n", "o", "p", "q", "r", "s", "t", "u", "v", "w", "x", "y", "z">>
    IN  [ch \in {upper[i] : i \in 1..Len(upper)} |->
            lower[CHOOSE i \in 1..Len(upper) : upper[i] = ch]]

RECURSIVE TrimStart(_)
TrimStart(cs) == IF cs # <<>> /\ Head(cs) \in {" ", "\n", "\t", "\r"} THEN TrimStart(Tail(cs)) ELSE cs

RECURSIVE TrimEnd(_)
TrimEnd(cs) ==
    IF cs # <<>> /\ cs[Len(cs)] \in {" ", "\n", "\t", "\r"} THEN TrimEnd(SubSeq(cs, 1, Len(cs) - 1)) ELSE cs

\* String.prototype.trim
Trim(str) == Text(TrimEnd(TrimStart(Chars(str))))

\* String.prototype.toLowerCase
ToLowerCase(str) == Text([i \in 1..Len(Chars(str)) |-> (IF Chars(str)[i] \in DOMAIN LowerOf THEN LowerOf[Chars(str)[i]] ELSE Chars(str)[i])])

\* The number of digits cs starts with.
RECURSIVE LeadingDigits(_)
LeadingDigits(cs) ==
    IF cs # <<>> /\ Head(cs) \in DOMAIN DigitValue THEN 1 + LeadingDigits(Tail(cs)) ELSE 0

\* The value of a sequence of digits.
RECURSIVE DigitsValue(_)
DigitsValue(ds) ==
    IF ds = <<>> THEN 0
    ELSE 10 * DigitsValue(SubSeq(ds, 1, Len(ds) - 1)) + DigitValue[ds[Len(ds)]]

StartsWith(cs, prefix) == Len(cs) >= Len(prefix) /\ SubSeq(cs, 1, Len(prefix)) = prefix

\* Numbers are kept in ten-thousandths; the outputs of the model carry at most
\* four decimals and no exponent.
NaN == [kind |-> "NaN", value |-> 0]
Infinite(sign) == [kind |-> "Infinity", value |-> sign]
Finite(v) == [kind |-> "finite", value |-> v]

\* parseFloat(str): leading white space is skipped, then a sign, then Infinity
\* or the longest decimal literal; whatever follows is ignored.
ParseFloat(str) ==
    LET trimmed == TrimStart(Chars(str))
        signed == trimmed # <<>> /\ Head(trimmed) \in {"+", "-"}
        sign == IF signed /\ Head(trimmed) = "-" THEN -1 ELSE 1
        body == IF signed THEN Tail(trimmed) ELSE trimmed
        ni == LeadingDigits(body)
        rest == SubSeq(body, ni + 1, Len(body))
        dotted == rest # <<>> /\ Head(rest) = "."
        nf == IF dotted THEN LeadingDigits(Tail(rest)) ELSE 0
        fraction == [i \in 1..4 |-> IF i <= nf THEN rest[i + 1] ELSE "0"]
    IN  IF StartsWith(body, Chars("Infinity")) THEN Infinite(sign)
        ELSE IF ni + nf = 0 THEN NaN
        ELSE Finite(sign * (DigitsValue(SubSeq(body, 1, ni)) * 10000 + DigitsValue(fraction)))

\* Math.abs(a - b) < 0.001: Infinity - Infinity is NaN, and a comparison with
\* NaN is false.
WithinTolerance(a, b) ==
    LET difference ==
            CASE a.kind = "NaN" \/ b.kind = "NaN" -> NaN
              [] a.kind = "Infinity" /\ b.kind = "Infinity" ->
                    IF a.value = b.value THEN NaN ELSE Infinite(a.value)
              [] a.kind = "Infinity" -> a
              [] b.kind = "Infinity" -> Infinite(-b.value)
              [] OTHER -> Finite(a.value - b.value)
        distance ==
            CASE difference.kind = "NaN" -> NaN
              [] difference.kind = "Infinity" -> Infinite(1)
              [] OTHER -> Finite(IF difference.value < 0 THEN -difference.value
                                 ELSE difference.value)
    IN  distance.kind = "finite" /\ distance.value * 1000 < 10000

\* validateOutput(actual, expected)
validateOutput(actual, expected) ==
    IF actual = expected THEN TRUE
    ELSE IF ToLowerCase(actual) = ToLowerCase(expected) THEN TRUE
    ELSE IF ParseFloat(actual).kind # "NaN" /\ ParseFloat(expected).kind # "NaN"
         THEN WithinTolerance(ParseFloat(actual), ParseFloat(expected))
    ELSE Trim(actual) = Trim(expected)

\* validateTestResult(result, testCase, testType), with validatePerformance,
\* validateSecurity, validateUnitTest and validateCodeQuality.
validateTestResult(result, testCase, testType) ==
    IF ~result.success THEN FALSE
    ELSE LET actualOutput == Trim(result.output)
             expectedOutput == Trim(testCase.expectedOutput)
             validatePerformance(executionTime) == executionTime < 1000
             validateSecurity(r) == r.success /\ r.error = Empty
             validateUnitTest(actual, expected) == validateOutput(actual, expected)
             validateCodeQuality(r) == r.success
         IN  CASE testType = "output_validation" -> validateOutput(actualOutput, expectedOutput)
               [] testType = "performance_test" -> validatePerformance(result.executionTime)
               [] testType = "memory_test" -> result.success
               [] testType = "security_test" -> validateSecurity(result)
               [] testType = "unit_test" -> validateUnitTest(actualOutput, expectedOutput)
               [] testType = "code_quality" -> validateCodeQuality(result)
               [] OTHER -> actualOutput = expectedOutput

\* executeTestCase, once compileAndRun has settled with `result` after
\* `elapsed` ms: the TestResult of the try block, or of the catch clause when
\* compileAndRun rejected.
executeTestCase(result, testCase, config, elapsed) ==
    IF result.kind = "rejected"
    THEN [testCaseId |-> testCase.id, passed |-> FALSE, actualOutput |-> "",
          expectedOutput |-> testCase.expectedOutput, executionTime |-> elapsed,
          error |-> result.error]
    ELSE [testCaseId |-> testCase.id,
          passed |-> validateTestResult(result, testCase, config.testType),
          actualOutput |-> result.output,
          expectedOutput |-> testCase.expectedOutput, executionTime |-> elapsed,
          error |-> result.error]

\* generateSummary(results, totalTime): the counts.
generateSummary(results) ==
    LET passedTests == Cardinality({i \in 1..Len(results) : results[i].passed})
    IN  [totalTests |-> Len(results), passedTests |-> passedTests,
         failedTests |-> Len(results) - passedTests]

\* The suites of the model: up to MaxCases test cases, each with its id, an
\* input and an expected output.
Suites ==
    LET pool == {[input |-> "", expectedOutput |-> " 42 "],
                 [input |-> "7", expectedOutput |-> "43"]}
    IN  UNION {{[i \in 1..n |-> [id |-> <<"case", i>>, input |-> q[i].input,
                                 expectedOutput |-> q[i].expectedOutput]] :
                   q \in [1..n -> pool]} : n \in 0..MaxCases}

\* executeTestSuite(code, testSuite, userId) is called.
StartSuite ==
    /\ suite.pc = "idle"
    /\ \E code \in {Src(<<"mov", "rax", ",", "0", "ret">>, 60), Src(<<"hlt", "ret">>, 40)},
          cases \in Suites, allow \in BOOLEAN, type \in TestTypes :
          suite' = [IdleSuite EXCEPT !.pc = "loop", !.code = code, !.testCases = cases,
                       !.configuration = [timeout |-> DefaultTimeout,
                                          allowSystemCalls |-> allow, testType |-> type],
                       !.index = 1]
    /\ UNCHANGED <<calls, dirs, files, ml64Path, linkPath, installed, syntax, probe, lookups, user_progress, updates>>

\* for (const testCase of testSuite.testCases): executeTestCase calls
\* compileAndRun(code, testCase.input, {timeout, memoryLimit, allowSystemCalls}).
ExecuteTestCase(c) ==
    /\ suite.pc = "loop"
    /\ suite.index <= Len(suite.testCases)
    /\ Invoke(c, {suite.code}, {suite.testCases[suite.index].input},
              {suite.configuration.allowSystemCalls}, {suite.configuration.timeout})
    /\ suite' = [suite EXCEPT
           !.pc = "await",
           !.invoked = Append(@, [input |-> suite.testCases[suite.index].input,
                                  timeout |-> suite.configuration.timeout])]

\* CollectResult without the try/catch around the Judge: a failed case ends
\* the run of the suite with an exception.
CollectResult_Rethrow(c) ==
    /\ suite.pc = "await"
    /\ Return(c)
    /\ IF calls[c].outcome.success
       THEN suite' = [suite EXCEPT
                !.pc = "loop",
                !.index = @ + 1,
                !.judged = Append(@, calls[c].outcome),
                !.results = Append(@, executeTestCase(calls[c].outcome,
                                                      suite.testCases[suite.index],
                                                      suite.configuration, calls[c].clock))]
       ELSE suite' = [suite EXCEPT !.pc = "thrown", !.judged = Append(@, calls[c].outcome)]

\* compileAndRun has settled: executeTestCase returns its TestResult, which
\* executeTestSuite pushes; the loop goes on with the next test case.
CollectResult(c) ==
    /\ suite.pc = "await"
    /\ Return(c)
    /\ suite' = [suite EXCEPT
           !.pc = "loop",
           !.index = @ + 1,
           !.judged = Append(@, calls[c].outcome),
           !.results = Append(@, executeTestCase(calls[c].outcome,
                                                 suite.testCases[suite.index],
                                                 suite.configuration, calls[c].clock))]

\* After the loop: the summary is generated and the TestExecutionResult returned.
FinishSuite ==
    /\ suite.pc = "loop"
    /\ suite.index > Len(suite.testCases)
    /\ suite' = [suite EXCEPT !.pc = "returned", !.summary = generateSummary(suite.results)]
    /\ UNCHANGED <<calls, dirs, files, ml64Path, linkPath, installed, syntax, probe, lookups, user_progress, updates>>

\* A host with the toolchain installed, or with no linker.
SuiteInit ==
    /\ calls = [c \in Calls |-> IdleCall]
    /\ dirs = {}
    /\ files = {}
    /\ ml64Path = ""
    /\ linkPath = ""
    /\ installed \in {[t \in Tools |-> "known"], [t \in Tools |-> IF t = "link" THEN "none" ELSE "path"]}
    /\ suite = IdleSuite
    /\ syntax = IdleSyntax
    /\ probe = NoProbe
    /\ lookups = [t \in Tools |-> 0]
    /\ user_progress = NoProgress
    /\ updates = [s \in Calls |-> IdleUpdate]

\* One run of executeTestSuite, its test cases judged one after the other.
SuiteSpec ==
    /\ SuiteInit
    /\ [][
        \/ StartSuite
        \/ ExecuteTestCase(Caller)
        \/ EnsureDir(Caller)
        \/ ValidateCode(Caller)
        \/ WriteAsm(Caller)
        \/ CompileStart(Caller)
        \/ CompileDone(Caller, PlainRuns)
        \/ AfterCompile(Caller)
        \/ LinkStart(Caller)
        \/ LinkDone(Caller, PlainRuns)
        \/ AfterLink(Caller)
        \/ Spawn(Caller, {"exits", "loops"})
        \/ SpawnThrows(Caller)
        \/ ChildClose(Caller, {"42"}, ErrOutputs, ExitCodes)
        \/ Finally(Caller)
        \/ CollectResult(Caller)
        \/ FinishSuite
       ]_vars

\* ------------------------------------------------------------------ claims

\* The source matches an entry of the denylist.
Denylisted(code) == \E k \in dangerousPatterns : MatchesPattern(k, code.words)

\* C1: a call whose code matches a denylisted pattern while allowSystemCalls
\* is false never has a build directory created for it.
C1_NoWorkspaceOnDenylisted ==
    \A c \in Calls :
        (calls[c].pc # "idle" /\ Denylisted(calls[c].code) /\ ~calls[c].allow)
            => ~calls[c].dirCreated

\* C2: a call the Security Screener rejected ends with its promise rejected,
\* never with an AssemblyResult.
C2_RejectionIsRaised ==
    \A c \in Calls :
        (calls[c].pc = "done" /\ calls[c].screened \in {"dangerous", "too_large"}) => calls[c].outcome.kind = "rejected"

\* C3: a call the Security Screener rejects spawns no compiler, linker or
\* executable, and no process is spawned before screening has passed.
C3_NoProcessOnRejection ==
    \A c \in Calls :
        /\ calls[c].screened \in {"dangerous", "too_large"} => calls[c].spawned = {}
        /\ calls[c].spawned # {} => calls[c].screened = "ok"

C3_Witness ==
    \E c \in Calls :
        calls[c].pc = "done" /\ calls[c].screened = "dangerous" /\ calls[c].spawned = {}

\* C4 as stated: once a call has returned, its build directory does not exist.
C4_NoWorkspaceAfterReturn ==
    \A c \in Calls : calls[c].pc = "done" => calls[c].buildId \notin dirs

\* C4 amended: once a call has returned, the removal of its build directory
\* has been attempted, and the directory does not exist unless that removal
\* failed.
C4_RemovedUnlessRemovalFailed ==
    \A c \in Calls :
        calls[c].pc = "done" =>
            /\ calls[c].cleanup \in {"removed", "failed"}
            /\ calls[c].cleanup = "removed" =>
                   (calls[c].buildId \notin dirs /\ FilesOf(calls[c].buildId) = {})

C4_Witness ==
    \E c \in Calls :
        /\ calls[c].pc = "done" /\ calls[c].cleanup = "removed" /\ calls[c].dirCreated
        /\ calls[c].compileResult.state = "done" /\ ~calls[c].compileResult.success
        /\ calls[c].buildId \notin dirs

\* C5: the submitted executable never runs past timeoutMs, and a call whose
\* executable had not exited by then returns success:false with the timeout
\* message.
C5_TimeoutEnforced ==
    \A c \in Calls :
        /\ calls[c].child = "running" => calls[c].clock <= calls[c].timeout
        /\ (calls[c].pc = "done" /\ "exe" \in calls[c].spawned /\ calls[c].clock > calls[c].timeout)
               => /\ ~calls[c].outcome.success
                  /\ calls[c].outcome.error =
                         <<"Program execution timed out. Check for infinite loops.">>

\* C6: every invocation of compileAndRun eventually returns.
C6_AlwaysReturns ==
    \A c \in Calls : calls[c].pc \notin {"idle", "done"} ~> calls[c].pc = "done"

\* C8: the linker is started only after the compiler reported success and
\* the executable only after the linker did; a failed compilation or link
\* returns success:false with the tool's diagnostic text and starts no
\* executable.
C8_StagesSequential ==
    \A c \in Calls :
      LET EndsWith(text, part) ==
              /\ Len(part) <= Len(text)
              /\ SubSeq(text, Len(text) - Len(part) + 1, Len(text)) = part
      IN
        /\ "link" \in calls[c].spawned =>
               ("ml64" \in calls[c].spawned /\ calls[c].compileResult.success)
        /\ "exe" \in calls[c].spawned =>
               ("link" \in calls[c].spawned /\ calls[c].linkResult.success)
        /\ (calls[c].pc = "done" /\ calls[c].compileResult.state = "done"
                /\ ~calls[c].compileResult.success) =>
               /\ ~calls[c].outcome.success
               /\ calls[c].outcome.error # Empty
               /\ EndsWith(calls[c].outcome.error, calls[c].toolStderr)
               /\ calls[c].spawned \subseteq {"ml64"}
        /\ (calls[c].pc = "done" /\ calls[c].linkResult.state = "done"
                /\ ~calls[c].linkResult.success) =>
               /\ ~calls[c].outcome.success
               /\ calls[c].outcome.error # Empty
               /\ EndsWith(calls[c].outcome.error, calls[c].toolStderr)
               /\ "exe" \notin calls[c].spawned

C8_Witness ==
    \E c \in Calls :
        /\ calls[c].pc = "done" /\ calls[c].spawned = {"ml64", "link"}
        /\ ~calls[c].linkResult.success /\ calls[c].toolStderr # Empty
        /\ ~calls[c].outcome.success

\* C9: a call that cannot locate the compiler or the linker ends with an
\* error raised to its caller, not with a success:false result.
C9_ConfigurationErrorIsRaised ==
    \A c \in Calls :
        (calls[c].pc = "done" /\ calls[c].compileResult.state = "done"
            /\ \E t \in Tools : installed[t] = "none") => calls[c].outcome.kind = "rejected"


programVars == <<calls, dirs, files, ml64Path, linkPath, installed, suite, syntax, lookups,
                 user_progress, updates>>

IdleProgram ==
    /\ calls = [c \in Calls |-> IdleCall]
    /\ dirs = {}
    /\ files = {}
    /\ ml64Path = ""
    /\ linkPath = ""
    /\ installed = [t \in Tools |-> "known"]
    /\ suite = IdleSuite
    /\ syntax = IdleSyntax
    /\ lookups = [t \in Tools |-> 0]
    /\ user_progress = NoProgress
    /\ updates = [s \in Calls |-> IdleUpdate]

\* validateOutput is called with any two output strings.
OutputInit ==
    /\ IdleProgram
    /\ probe \in {[op |-> "validateOutput", actual |-> a, expected |-> e,
                   returned |-> FALSE, passed |-> FALSE] : a \in Texts, e \in Texts}

ValidateOutput ==
    /\ probe.op = "validateOutput"
    /\ ~probe.returned
    /\ probe' = [probe EXCEPT !.returned = TRUE,
                              !.passed = validateOutput(probe.actual, probe.expected)]
    /\ UNCHANGED programVars

OutputSpec == OutputInit /\ [][ValidateOutput]_vars

Rational(n, d) == [kind |-> "rational", num |-> n, den |-> d]
Number(n) == Rational(n, 1)

\* n / d on two counts: 0 / 0 is NaN (a count over an empty list is 0).
Divide(n, d) == IF d = 0 THEN NaN ELSE Rational(n, d)

Add(a, b) ==
    IF a.kind = "NaN" \/ b.kind = "NaN" THEN NaN
    ELSE Rational(a.num * b.den + b.num * a.den, a.den * b.den)

Times(a, b) ==
    IF a.kind = "NaN" \/ b.kind = "NaN" THEN NaN
    ELSE Rational(a.num * b.num, a.den * b.den)

\* Math.round: the nearest integer, halves rounded up.
Round(a) ==
    IF a.kind = "NaN" THEN NaN ELSE Number((2 * a.num + a.den) \div (2 * a.den))

\* a >= b and a < b: false when either side is NaN.
AtLeast(a, b) ==
    a.kind = "rational" /\ b.kind = "rational" /\ a.num * b.den >= b.num * a.den
LessThan(a, b) ==
    a.kind = "rational" /\ b.kind = "rational" /\ a.num * b.den < b.num * a.den

\* String.prototype.includes on character sequences.
Includes(cs, sub) ==
    \E i \in 1..(Len(cs) - Len(sub) + 1) : SubSeq(cs, i, i + Len(sub) - 1) = sub

\* parseInt(str): leading white space, a sign, the longest run of digits.
ParseInt(str) ==
    LET trimmed == TrimStart(Chars(str))
        signed == trimmed # <<>> /\ Head(trimmed) \in {"+", "-"}
        sign == IF signed /\ Head(trimmed) = "-" THEN -1 ELSE 1
        body == IF signed THEN Tail(trimmed) ELSE trimmed
        n == LeadingDigits(body)
    IN  IF n = 0 THEN NaN ELSE Number(sign * DigitsValue(SubSeq(body, 1, n)))

\* A submitted program is the sequence of its lines (code.split('\n')); a
\* line is its leading spaces and its words (a comma and the ';' that opens a
\* comment are words of their own).
Line(indent, ws) == [indent |-> indent, words |-> ws]

\* code.split('\n').filter(line => line.trim().length > 0).length
LinesOfCode(code) == Cardinality({i \in 1..Len(code) : code[i].words # <<>>})

\* The positions of the words of the program: line and place in the line.
WordsOf(code) == UNION {{l} \X (1..Len(code[l].words)) : l \in 1..Len(code)}

LowerChars(w) == [i \in 1..Len(Chars(w)) |-> (IF Chars(w)[i] \in DOMAIN LowerOf THEN LowerOf[Chars(w)[i]] ELSE Chars(w)[i])]

\* Of the names in the two regular expressions, those that occur in the
\* programs of the model are kept.
\* code.match(/\b(mov|add|...)\b/gi).length
InstructionCount(code) ==
    LET names == {Chars(n) : n \in {"mov", "cmp", "ret", "je", "jne", "jg", "jl", "jle"}}
    IN  Cardinality({w \in WordsOf(code) : LowerChars(code[w[1]].words[w[2]]) \in names})

\* Object.keys(registerUsage): the registers named, in lower case.
RegistersUsed(code) ==
    {LowerChars(code[w[1]].words[w[2]]) : w \in WordsOf(code)}
        \cap {Chars(n) : n \in {"rax", "rbx", "rcx", "rdx"}}

\* line.includes(sub), code.includes(sub)
LineIncludes(line, sub) ==
    \E i \in 1..Len(line.words) : Includes(Chars(line.words[i]), Chars(sub))
CodeIncludes(code, sub) == \E i \in 1..Len(code) : LineIncludes(code[i], sub)

\* analyzeCodeQuality(code): the fields the grade reads.
analyzeCodeQuality(code) ==
    LET commented == Cardinality({i \in 1..Len(code) :
                                    code[i].words # <<>> /\ LineIncludes(code[i], ";")})
        ratio == Times(Divide(commented, LinesOfCode(code)), Number(100))
        readability == IF ratio.kind = "NaN" THEN NaN
                       ELSE IF LessThan(ratio, Number(100)) THEN ratio ELSE Number(100)
    IN  [linesOfCode |-> LinesOfCode(code),
         instructionCount |-> InstructionCount(code),
         registerUsage |-> RegistersUsed(code),
         readability |-> Round(readability)]

\* calculatePerformanceMetrics(results, code): the fields the grade reads.
calculatePerformanceMetrics(results, code) ==
    LET RECURSIVE Sum(_)
        Sum(rs) == IF rs = <<>> THEN 0 ELSE Head(rs).executionTime + Sum(Tail(rs))
    IN  [executionTime |-> Divide(Sum(results), Len(results)),
         instructionsExecuted |-> InstructionCount(code),
         codeSize |-> LinesOfCode(code)]

\* A sub-score as the grade reports it.
Breakdown(score, maxScore) ==
    [score |-> Round(score), maxScore |-> maxScore,
     percentage |-> Round(Times(score, Rational(100, maxScore)))]

\* gradeFunctionality with the base score taken from the public cases that
\* failed instead of those that passed.
gradeFunctionality_FailedPublic(results) ==
    LET all == 1..Len(results)
        IsHidden(r) == Includes(Chars(r.testCaseId), Chars("hidden"))
        publicTests == Cardinality({i \in all : ~IsHidden(results[i])})
        failedPublicTests ==
            Cardinality({i \in all : ~results[i].passed /\ ~IsHidden(results[i])})
        base == IF publicTests > 0
                THEN Times(Divide(failedPublicTests, publicTests), Number(50))
                ELSE Number(0)
    IN  Breakdown(base, 70)

\* gradeFunctionality(results, exercise)
gradeFunctionality(results) ==
    LET all == 1..Len(results)
        passedTests == Cardinality({i \in all : results[i].passed})
        totalTests == Len(results)
        IsHidden(r) == Includes(Chars(r.testCaseId), Chars("hidden"))
        publicTests == Cardinality({i \in all : ~IsHidden(results[i])})
        passedPublicTests ==
            Cardinality({i \in all : results[i].passed /\ ~IsHidden(results[i])})
        hiddenTests == totalTests - publicTests
        passedHiddenTests == passedTests - passedPublicTests
        base == IF publicTests > 0
                THEN Times(Divide(passedPublicTests, publicTests), Number(50))
                ELSE Number(0)
        bonus == IF hiddenTests > 0
                 THEN Times(Divide(passedHiddenTests, hiddenTests), Number(20))
                 ELSE Number(0)
        allTestsCompiled ==
            \A i \in all : \/ results[i].error = Empty
                           \/ \E k \in 1..Len(results[i].error) : results[i].error[k] = "Wrong Answer"
        score == Add(Add(base, bonus), IF allTestsCompiled THEN Number(10) ELSE Number(0))
    IN  Breakdown(score, 70)

\* gradeEfficiency(metrics, code)
gradeEfficiency(metrics, code) ==
    LET time == IF LessThan(metrics.executionTime, Number(100)) THEN 8
                ELSE IF LessThan(metrics.executionTime, Number(500)) THEN 6
                ELSE IF LessThan(metrics.executionTime, Number(1000)) THEN 4
                ELSE 2
        lines == LinesOfCode(code)
        size == IF lines < 10 THEN 6 ELSE IF lines < 20 THEN 4 ELSE IF lines < 30 THEN 2 ELSE 0
        count == metrics.instructionsExecuted
        algorithm == IF count < 50 THEN 6 ELSE IF count < 100 THEN 4
                     ELSE IF count < 200 THEN 2 ELSE 0
    IN  Breakdown(Number(time + size + algorithm), 20)

\* checkFormatting(code)
checkFormatting(code) ==
    \A i \in 1..Len(code) :
        LET line == code[i]
        IN  \/ line.words = <<>>
            \/ StartsWith(Chars(line.words[1]), Chars(";"))
            \/ StartsWith(Chars(line.words[1]), Chars(".data"))
            \/ StartsWith(Chars(line.words[1]), Chars(".code"))
            \/ LineIncludes(line, "proc")
            \/ LineIncludes(line, "endp")
            \/ line.indent = 0
            \/ line.indent >= 4

\* gradeStyle(code, quality)
gradeStyle(code, quality) ==
    LET commentRatio == Times(quality.readability, Rational(1, 100))
        score == Add(Add(Times(commentRatio, Number(4)),
                         IF checkFormatting(code) THEN Number(3) ELSE Number(0)),
                     IF Cardinality(quality.registerUsage) > 3 THEN Number(3) ELSE Number(0))
    IN  Breakdown(score, 10)

\* isEdgeCase(result)
isEdgeCase(result) ==
    \/ result.testCaseId = "0"
    \/ result.testCaseId = "1"
    \/ result.expectedOutput = "0"
    \/ LessThan(Number(1000), ParseInt(result.testCaseId))
    \/ LessThan(Number(1000), ParseInt(result.expectedOutput))

\* gradeRobustness(results, code)
gradeRobustness(results, code) ==
    LET hasErrorHandling ==
            /\ CodeIncludes(code, "cmp")
            /\ \E j \in {"je", "jne", "jg", "jl"} : CodeIncludes(code, j)
        edgeCases == {i \in 1..Len(results) : isEdgeCase(results[i])}
        passedEdgeCases == Cardinality({i \in edgeCases : results[i].passed})
        totalEdgeCases == Cardinality(edgeCases)
        hasInputValidation == CodeIncludes(code, "cmp") /\ CodeIncludes(code, "jl")
        score == Add(Add(IF hasErrorHandling THEN Number(3) ELSE Number(0),
                         IF totalEdgeCases > 0
                         THEN Times(Divide(passedEdgeCases, totalEdgeCases), Number(4))
                         ELSE Number(0)),
                     IF hasInputValidation THEN Number(3) ELSE Number(0))
    IN  Breakdown(score, 10)

\* calculateLetterGrade with the bands of TestingService.calculateSentiment.
calculateLetterGrade_OtherBands(percentage) ==
    IF AtLeast(percentage, Number(90)) THEN "A"
    ELSE IF AtLeast(percentage, Number(75)) THEN "B"
    ELSE IF AtLeast(percentage, Number(60)) THEN "C"
    ELSE "F"

\* calculateLetterGrade(percentage)
calculateLetterGrade(percentage) ==
    IF AtLeast(percentage, Number(90)) THEN "A"
    ELSE IF AtLeast(percentage, Number(80)) THEN "B"
    ELSE IF AtLeast(percentage, Number(70)) THEN "C"
    ELSE IF AtLeast(percentage, Number(60)) THEN "D"
    ELSE "F"

\* generateFeedback(results, quality, performance, percentage): overall.sentiment
generateFeedback(percentage) ==
    IF AtLeast(percentage, Number(90)) THEN "excellent"
    ELSE IF AtLeast(percentage, Number(80)) THEN "good"
    ELSE IF AtLeast(percentage, Number(70)) THEN "fair"
    ELSE "needs_work"

\* gradeSubmission(exercise, code, results, options)
gradeSubmission(code, results) ==
    LET codeQuality == analyzeCodeQuality(code)
        performanceMetrics == calculatePerformanceMetrics(results, code)
        functionalityGrade == gradeFunctionality(results)
        efficiencyGrade == gradeEfficiency(performanceMetrics, code)
        styleGrade == gradeStyle(code, codeQuality)
        robustnessGrade == gradeRobustness(results, code)
        totalScore == Add(Add(functionalityGrade.score, efficiencyGrade.score),
                          Add(styleGrade.score, robustnessGrade.score))
        maxScore == functionalityGrade.maxScore + efficiencyGrade.maxScore
                    + styleGrade.maxScore + robustnessGrade.maxScore
        percentage == Times(totalScore, Rational(100, maxScore))
    IN  [score |-> Round(totalScore), maxScore |-> maxScore,
         percentage |-> Round(percentage),
         letterGrade |-> calculateLetterGrade(percentage),
         breakdown |-> [functionality |-> functionalityGrade,
                        efficiency |-> efficiencyGrade,
                        style |-> styleGrade,
                        robustness |-> robustnessGrade],
         sentiment |-> generateFeedback(percentage)]

\* The submissions graded in the model: the empty text, a program without
\* comments, one with a branch and one commented throughout.
Programs ==
    { <<Line(0, <<>>)>>,
      <<Line(0, <<"main", "PROC">>),
        Line(4, <<"mov", "rax", ",", "42">>),
        Line(4, <<"ret">>),
        Line(0, <<"main", "ENDP">>),
        Line(0, <<"END">>)>>,
      <<Line(0, <<".code">>),
        Line(0, <<"main", "proc">>),
        Line(4, <<"MOV", "RAX", ",", "rcx", ";", "sum">>),
        Line(4, <<"cmp", "rax", ",", "0">>),
        Line(4, <<"jle", "done">>),
        Line(0, <<>>),
        Line(0, <<"done">>),
        Line(2, <<"ret">>),
        Line(0, <<"main", "endp">>),
        Line(0, <<"END">>)>>,
      <<Line(0, <<";", "sum">>),
        Line(0, <<".code">>),
        Line(0, <<"main", "proc", ";", "main">>),
        Line(4, <<"mov", "rax", ",", "rcx", ";">>),
        Line(4, <<"mov", "rbx", ",", "rdx", ";">>),
        Line(4, <<"cmp", "rax", ",", "rbx", ";">>),
        Line(4, <<"jl", "done", ";">>),
        Line(4, <<"mov", "rax", ",", "rbx", ";">>),
        Line(0, <<"done", ";">>),
        Line(4, <<"ret", ";">>),
        Line(0, <<"main", "endp">>),
        Line(0, <<"END">>)>> }

\* A TestResult as executeTestCase builds it.
TestResult(id, passed, expected, time, err) ==
    [testCaseId |-> id, passed |-> passed, expectedOutput |-> expected,
     executionTime |-> time, error |-> err]

\* The test results of the model: public, hidden and edge cases, passing or
\* failing on the answer, on the toolchain or slowly.
TestResults ==
    {TestResult("t1", TRUE, "42", 50, Empty),
     TestResult("t1", FALSE, "42", 0, <<"Compilation failed">>),
     TestResult("hidden_1", TRUE, "42", 50, Empty),
     TestResult("hidden_1", FALSE, "42", 50, <<"Wrong Answer">>),
     TestResult("0", FALSE, "42", 50, Empty),
     TestResult("1001", TRUE, "42", 1200, Empty)}

\* No grade yet.
NoGrade ==
    [score |-> NaN, maxScore |-> 0, percentage |-> NaN, letterGrade |-> "none",
     breakdown |-> [part \in {"functionality", "efficiency", "style", "robustness"} |->
                      [score |-> NaN, maxScore |-> 0, percentage |-> NaN]],
     sentiment |-> "none"]

\* gradeSubmission is called with any program and any list of results, and
\* again after one failing result was changed to passing.
GradeInit ==
    /\ IdleProgram
    /\ probe \in {[op |-> "gradeSubmission", code |-> c, results |-> rs,
                   returned |-> FALSE, regraded |-> FALSE,
                   grade |-> NoGrade, previous |-> NoGrade]
                    : c \in Programs, rs \in UNION {[1..n -> TestResults] : n \in 0..MaxCases}}

GradeSubmission ==
    /\ probe.op = "gradeSubmission"
    /\ ~probe.returned
    /\ probe' = [probe EXCEPT !.returned = TRUE,
                              !.grade = gradeSubmission(probe.code, probe.results)]
    /\ UNCHANGED programVars

\* The same submission graded again with result i passing instead of failing.
Regrade ==
    /\ probe.op = "gradeSubmission"
    /\ probe.returned
    /\ \E i \in 1..Len(probe.results) :
          /\ ~probe.results[i].passed
          /\ LET results == [probe.results EXCEPT ![i].passed = TRUE]
             IN  probe' = [probe EXCEPT !.results = results,
                                        !.regraded = TRUE,
                                        !.previous = probe.grade,
                                        !.grade = gradeSubmission(probe.code, results)]
    /\ UNCHANGED programVars

GradeSpec == GradeInit /\ [][GradeSubmission \/ Regrade]_vars

\* C12: in every grade each of the four sub-scores satisfies
\* 0 <= score <= maxScore and percentage <= 100, and so the aggregate
\* percentage never exceeds 100.
C12_SubScoresBounded ==
    (probe.op = "gradeSubmission" /\ probe.returned) =>
        /\ \A part \in {"functionality", "efficiency", "style", "robustness"} :
              LET sub == probe.grade.breakdown[part]
              IN  /\ AtLeast(sub.score, Number(0))
                  /\ AtLeast(Number(sub.maxScore), sub.score)
                  /\ AtLeast(Number(100), sub.percentage)
        /\ AtLeast(Number(100), probe.grade.percentage)

\* C13: with the program and the suite fixed, changing a test result from
\* failing to passing never lowers the aggregate score.
C13_ScoreMonotone ==
    ((probe.op = "gradeSubmission" /\ probe.returned) /\ probe.regraded) => ~LessThan(probe.grade.score, probe.previous.score)

C13_Witness ==
    /\ (probe.op = "gradeSubmission" /\ probe.returned)
    /\ probe.regraded
    /\ LessThan(probe.previous.score, probe.grade.score)
    /\ \E i \in 1..Len(probe.results) : ~probe.results[i].passed

\* C14: the letter grade agrees with the percentage reported in the same
\* grade: A from 90, B from 80, C from 70, D from 60, F otherwise.
C14_LetterMatchesPercentage ==
    (probe.op = "gradeSubmission" /\ probe.returned) =>
        LET p == probe.grade.percentage
            letter == probe.grade.letterGrade
        IN  /\ letter = "A" <=> AtLeast(p, Number(90))
            /\ letter = "B" <=> (AtLeast(p, Number(80)) /\ LessThan(p, Number(90)))
            /\ letter = "C" <=> (AtLeast(p, Number(70)) /\ LessThan(p, Number(80)))
            /\ letter = "D" <=> (AtLeast(p, Number(60)) /\ LessThan(p, Number(70)))
            /\ letter = "F" <=> ~AtLeast(p, Number(60))

C14_Witness ==
    /\ (probe.op = "gradeSubmission" /\ probe.returned)
    /\ probe.grade.letterGrade = "B"
    /\ LessThan(probe.grade.percentage, Number(80 + 5))

\* C15: the overall sentiment follows the bands of the aggregate percentage:
\* excellent from 90, good from 75, fair from 60, needs_work otherwise.
C15_SentimentBands ==
    (probe.op = "gradeSubmission" /\ probe.returned) =>
        LET p == probe.grade.percentage
            sentiment == probe.grade.sentiment
        IN  /\ sentiment = "excellent" <=> AtLeast(p, Number(90))
            /\ sentiment = "good" <=> (AtLeast(p, Number(75)) /\ LessThan(p, Number(90)))
            /\ sentiment = "fair" <=> (AtLeast(p, Number(60)) /\ LessThan(p, Number(75)))
            /\ sentiment = "needs_work" <=> ~AtLeast(p, Number(60))

\* ------------------------------------------------------ screening, again

\* C16: with allowSystemCalls false every source containing a restricted
\* operation (a privileged instruction, int 80h / int 2eh / syscall /
\* sysenter, a mov with a control register as either operand, rdmsr / wrmsr,
\* a descriptor-table instruction) is rejected by the screening.
C16_RestrictedIsRejected ==
    \A c \in Calls :
        LET ws == calls[c].code.words
            word(i) == ToLowerWord(ws[i])
            restricted ==
                \/ \E i \in 1..Len(ws) :
                      word(i) \in {"hlt", "cli", "sti", "syscall", "sysenter", "rdmsr",
                                   "wrmsr", "lgdt", "lidt", "sgdt", "sidt"}
                \/ \E i \in 1..(Len(ws) - 1) :
                      word(i) = "int" /\ word(i + 1) \in {"80h", "2eh", "0x80", "0x2e"}
                \/ \E i \in 1..Len(ws) :
                      /\ word(i) = "mov"
                      /\ \E j \in (i + 1)..(i + 3) :
                            j <= Len(ws) /\ word(j) \in {"cr0", "cr3", "cr4"}
        IN  (calls[c].screened # "none" /\ ~calls[c].allow /\ restricted)
                => calls[c].screened = "dangerous"

SyntaxRuns ==
    [status : {"exit0", "exit1", "killed"},
     stderr : {Empty, <<"Assembling", "warning A4014">>,
               <<" error A2008", "warning: error level 2", "warning A4014">>}]

\* ml64 reports error A2088 (END directive required at end of file) and exits
\* with a failure for a source without an END directive, the empty text
\* included.
AssemblerRuns(code) ==
    IF \E i \in 1..Len(code.words) : code.words[i] = "END"
    THEN SyntaxRuns
    ELSE {run \in SyntaxRuns : run.status = "exit1"}

SyntaxResult(valid, errors, warnings) ==
    [kind |-> "resolved", valid |-> valid, errors |-> errors, warnings |-> warnings]

\* validateSyntax after execAsync resolved: the diagnostics of stderr.
syntaxChecked(stderr) ==
    LET IsError(line) == Includes(Chars(line), Chars("error"))
        IsWarning(line) == ~IsError(line) /\ Includes(Chars(line), Chars("warning"))
        Trimmed(lines) == [i \in 1..Len(lines) |-> TrimEnd(TrimStart(Chars(lines[i])))]
        errors == Trimmed(SelectSeq(stderr, IsError))
        warnings == Trimmed(SelectSeq(stderr, IsWarning))
    IN  SyntaxResult(Len(errors) = 0, errors, warnings)

\* The catch clause of validateSyntax with errors left empty.
syntaxCaught_NoMessage(msg) == SyntaxResult(FALSE, <<>>, <<>>)

\* The catch clause of validateSyntax: errors is [error.message].
syntaxCaught(msg) == SyntaxResult(FALSE, <<msg>>, <<>>)

\* path.join(buildDir, name) in validateSyntax
syntaxFile(name) == [dir |-> syntax.buildId, name |-> name]

\* validateSyntax(code) is called with the empty text, a benign program, one
\* with a privileged instruction or one over the size ceiling; buildId is
\* syntax_${Date.now()}_${Math.random()...}.
ValidateSyntax ==
    /\ syntax.pc = "idle"
    /\ \E code \in { NoCode,
                     Src(<<"mov", "rax", ",", "0", "ret", "END">>, 60),
                     Src(<<"hlt", "ret", "END">>, 40),
                     Src(<<"nop", "ret", "END">>, MaxCodeSize + 1) },
          id \in {"syntax_t1_r1"} :
          syntax' = [IdleSyntax EXCEPT !.pc = "ensureDir", !.code = code, !.buildId = id]
    /\ UNCHANGED <<calls, dirs, files, ml64Path, linkPath, installed, suite, probe, lookups, user_progress, updates>>

\* await fs.ensureDir(buildDir)
SyntaxEnsureDir ==
    /\ syntax.pc = "ensureDir"
    /\ dirs' = dirs \cup {syntax.buildId}
    /\ syntax' = [syntax EXCEPT !.pc = "writeFile", !.dirCreated = TRUE]
    /\ UNCHANGED <<calls, files, ml64Path, linkPath, installed, suite, probe, lookups, user_progress, updates>>

\* fs.ensureDir rejects: caught.
SyntaxEnsureDirFails ==
    /\ syntax.pc = "ensureDir"
    /\ syntax' = [syntax EXCEPT !.pc = "finally",
                                !.pending = syntaxCaught(<<"EACCES: permission denied, mkdir">>)]
    /\ UNCHANGED <<calls, dirs, files, ml64Path, linkPath, installed, suite, probe, lookups, user_progress, updates>>

\* await fs.writeFile(asmFile, code)
SyntaxWriteFile ==
    /\ syntax.pc = "writeFile"
    /\ files' = (files \ At(syntaxFile("syntax_check.asm")))
                  \cup {[dir |-> syntax.buildId, name |-> "syntax_check.asm", by |-> "validateSyntax"]}
    /\ syntax' = [syntax EXCEPT !.pc = "compile", !.written = TRUE]
    /\ UNCHANGED <<calls, dirs, ml64Path, linkPath, installed, suite, probe, lookups, user_progress, updates>>

\* The command line is built: getML64Path() resolves the paths, and throws
\* into the catch clause when a tool is not found; then execAsync starts ml64.
SyntaxCompile ==
    /\ syntax.pc = "compile"
    /\ LET e == ensurePaths(ml64Path, linkPath, installed)
       IN  /\ ml64Path' = e.ml64
           /\ linkPath' = e.link
           /\ lookups' = [t \in Tools |->
                            IF t \in e.looked /\ lookups[t] < MaxLookups
                            THEN lookups[t] + 1 ELSE lookups[t]]
           /\ IF e.error = Empty
              THEN syntax' = [syntax EXCEPT !.pc = "compileWait", !.spawned = @ \cup {"ml64"}]
              ELSE syntax' = [syntax EXCEPT !.pc = "finally", !.pending = syntaxCaught(e.error)]
    /\ UNCHANGED <<calls, dirs, files, installed, suite, probe, user_progress, updates>>

\* execAsync(compileCmd, {cwd, timeout: 5000}) settles: the diagnostics are
\* classified, or the rejection is caught.
SyntaxCompiled ==
    /\ syntax.pc = "compileWait"
    /\ \E run \in AssemblerRuns(syntax.code) :
          /\ syntax' = [syntax EXCEPT
                          !.pc = "finally",
                          !.pending = IF run.status = "exit0"
                                      THEN syntaxChecked(run.stderr)
                                      ELSE syntaxCaught(<<"Command failed: ", ml64Path>>
                                                        \o run.stderr)]
          /\ files' = IF run.status = "exit0"
                      THEN (files \ At(syntaxFile("check.obj")))
                             \cup {[dir |-> syntax.buildId, name |-> "check.obj",
                                    by |-> "validateSyntax"]}
                      ELSE files
    /\ UNCHANGED <<calls, dirs, ml64Path, linkPath, installed, suite, probe, lookups, user_progress, updates>>

\* finally { try { await fs.remove(buildDir) } catch { console.warn } }
SyntaxFinally ==
    /\ syntax.pc = "finally"
    /\ dirs' = dirs \ {syntax.buildId}
    /\ files' = {f \in files : f.dir # syntax.buildId}
    /\ syntax' = [syntax EXCEPT !.pc = "done", !.cleanup = "removed",
                                !.outcome = syntax.pending]
    /\ UNCHANGED <<calls, ml64Path, linkPath, installed, suite, probe, lookups, user_progress, updates>>

\* fs.remove rejects: only logged.
SyntaxRemoveFails ==
    /\ syntax.pc = "finally"
    /\ syntax.buildId \in dirs
    /\ syntax' = [syntax EXCEPT !.pc = "done", !.cleanup = "failed",
                                !.outcome = syntax.pending]
    /\ UNCHANGED <<calls, dirs, files, ml64Path, linkPath, installed, suite, probe, lookups, user_progress, updates>>

\* The caller has the result; validateSyntax can be called again.
SyntaxReturn ==
    /\ syntax.pc = "done"
    /\ syntax' = IdleSyntax
    /\ UNCHANGED <<calls, dirs, files, ml64Path, linkPath, installed, suite, probe, lookups, user_progress, updates>>

SyntaxNext ==
    \/ ValidateSyntax
    \/ SyntaxEnsureDir
    \/ SyntaxEnsureDirFails
    \/ SyntaxWriteFile
    \/ SyntaxCompile
    \/ SyntaxCompiled
    \/ SyntaxFinally
    \/ SyntaxRemoveFails
    \/ SyntaxReturn

SyntaxSpec == Init /\ [][SyntaxNext]_vars

\* C18: a source the Security Screener rejects is never written to a
\* workspace or handed to the compiler by validateSyntax, and validateSyntax
\* never starts the linker or the submitted executable.
C18_SyntaxScreensFirst ==
    /\ validateCode(syntax.code, FALSE) # "ok" => (~syntax.written /\ syntax.spawned = {})
    /\ syntax.spawned \subseteq {"ml64"}

\* C19: validateSyntax on the empty source returns valid false with at least
\* one error, and in every result valid is false exactly when errors is not
\* empty, whether the compiler ran, failed, timed out or was not found.
C19_ValidIffNoErrors ==
    syntax.pc = "done" =>
        /\ syntax.outcome.kind = "resolved"
        /\ syntax.outcome.valid <=> (Len(syntax.outcome.errors) = 0)
        /\ syntax.code = NoCode => (~syntax.outcome.valid /\ Len(syntax.outcome.errors) > 0)

C19_Witness ==
    /\ syntax.pc = "done"
    /\ syntax.code = NoCode
    /\ "ml64" \in syntax.spawned
    /\ ~syntax.outcome.valid
    /\ Len(syntax.outcome.errors) > 0

\* ------------------------------------------------------- execution stage

\* C20: when the executable was spawned and exited by itself the call returns
\* success true whatever the exit code; a failed result of the execution
\* stage comes from the supervisor only (spawn or the write to stdin threw).
C20_ExitCodeDoesNotFail ==
    \A c \in Calls :
        LET executed == /\ calls[c].pc \in {"finally", "done"}
                        /\ calls[c].linkResult = Stage(TRUE, Empty)
        IN  /\ (executed /\ calls[c].child = "exited") => calls[c].pending.success
            /\ (executed /\ ~calls[c].pending.success) =>
                  /\ calls[c].child = "none"
                  /\ \E err \in SpawnErrors : calls[c].pending.error = err.message

C20_Witness ==
    \E c \in Calls :
        /\ calls[c].pc = "done"
        /\ calls[c].child = "exited"
        /\ calls[c].childCode # 0
        /\ calls[c].outcome.success

\* C23: for every execution the child's standard input is closed after the
\* input (if any) was written, the empty input included.
C23_StdinAlwaysClosed ==
    \A c \in Calls : calls[c].child # "none" => calls[c].stdinClosed

\* ------------------------------------------------- one service, both entries

\* One client of compileAndRun and one of validateSyntax on the same
\* AssemblerService, their awaits interleaving.
ServiceSpec ==
    /\ Init
    /\ [][
        \/ Call(Caller, {SameSource}, {"7"}, {FALSE}, {DefaultTimeout})
        \/ EnsureDir(Caller)
        \/ EnsureDirFails(Caller)
        \/ ValidateCode(Caller)
        \/ WriteAsm(Caller)
        \/ CompileStart(Caller)
        \/ CompileDone(Caller, PlainRuns)
        \/ AfterCompile(Caller)
        \/ LinkStart(Caller)
        \/ LinkDone(Caller, PlainRuns)
        \/ AfterLink(Caller)
        \/ Spawn(Caller, {"exits"})
        \/ SpawnThrows(Caller)
        \/ ChildClose(Caller, {"42"}, {Empty}, ExitCodes)
        \/ Finally(Caller)
        \/ FinallyRemoveFails(Caller)
        \/ Deliver(Caller)
        \/ SyntaxNext
       ]_vars

\* C24: a failed removal of the workspace is only logged: compileAndRun and
\* validateSyntax resolve with the result the try or the catch block had
\* produced, and nothing is raised to the caller.
C24_RemovalFailureOnlyLogged ==
    /\ \A c \in Calls :
          (calls[c].pc = "done" /\ calls[c].cleanup = "failed") =>
              /\ calls[c].outcome.kind = "resolved"
              /\ calls[c].outcome = calls[c].pending
    /\ (syntax.pc = "done" /\ syntax.cleanup = "failed") =>
          /\ syntax.outcome.kind = "resolved"
          /\ syntax.outcome = syntax.pending

C24_Witness ==
    /\ \E c \in Calls :
          /\ calls[c].pc = "done"
          /\ calls[c].cleanup = "failed"
          /\ calls[c].outcome.success
    /\ syntax.pc = "done"
    /\ syntax.cleanup = "failed"
    /\ syntax.outcome.valid

\* C26: the toolchain locations are resolved at most once per process
\* lifetime, whether the first resolution succeeded or failed: neither
\* findML64Path nor findLinkPath runs a second time.
C26_ResolvedAtMostOnce == \A t \in Tools : lookups[t] <= 1

\* C28: in every outcome of compileAndRun exitCode is 0 exactly when success
\* is true; the exit status of the submitted program is never reported: a
\* program that exits with a non-zero status yields success with exitCode 0.
C28_ExitCodeFollowsSuccess ==
    \A c \in Calls :
        calls[c].pc = "done" =>
            /\ calls[c].outcome.success <=> (calls[c].outcome.exitCode = 0)
            /\ calls[c].child = "exited" =>
                  (calls[c].outcome.success /\ calls[c].outcome.exitCode = 0)

C28_Witness ==
    \E c \in Calls :
        /\ calls[c].pc = "done"
        /\ calls[c].child = "exited"
        /\ calls[c].childCode = 1
        /\ calls[c].outcome.exitCode = 0

\* C27: whatever the test type of the suite, executeTestCase reports
\* passed:true only if the Judge outcome was a success and the output of the
\* program matches the expected output of the case under validateOutput.
C27_PassedOnlyIfOutputMatches ==
    \A i \in 1..Len(suite.results) :
        suite.results[i].passed =>
            /\ suite.judged[i].success
            /\ validateOutput(Trim(suite.judged[i].output),
                              Trim(suite.testCases[i].expectedOutput))

\* ------------------------------------------------------------------------
\* TestRunner.runSecurityAnalysis

\* The loop over dangerousInstructions of runSecurityAnalysis: the issues of
\* type 'dangerous_instruction' it pushes, one for each pattern that matches.
dangerousInstructions(code) ==
    LET ws == code.words
        Issue(s, d) == [type |-> "dangerous_instruction", severity |-> s, description |-> d]
    IN  (IF HasPair(ws, "int", {"80", "80h", "2e", "2eh"})
         THEN {Issue("high", "System call interrupts")} ELSE {})
        \cup
        (IF HasWord(ws, {"hlt", "cli", "sti"})
         THEN {Issue("high", "Privileged instructions")} ELSE {})
        \cup
        (IF HasPair(ws, "mov", {"cr0", "cr1", "cr2", "cr3", "cr4"}) \/ HasWord(ws, {"lgdt", "lidt"})
         THEN {Issue("high", "Control register access")} ELSE {})
        \cup
        (IF HasWord(ws, {"rdmsr", "wrmsr"})
         THEN {Issue("medium", "Model-specific register access")} ELSE {})
        \cup
        (IF HasWord(ws, {"syscall", "sysenter"})
         THEN {Issue("medium", "System calls")} ELSE {})

\* C25: runSecurityAnalysis reports a 'dangerous_instruction' issue for a
\* source exactly when compileAndRun, called without allowSystemCalls, rejects
\* that source for a disallowed instruction.
C25_IssueIffRejected ==
    \A c \in Calls :
        (calls[c].screened # "none" /\ ~calls[c].allow)
            => ((dangerousInstructions(calls[c].code) # {}) <=> (calls[c].screened = "dangerous"))

\* ------------------------------------------------------------------------
\* TestRunner.runQuickValidation

\* Math.min(testCases.length, 3): the bound of the loop.
quickLimit_AllCases(n) == n

quickLimit(n) == IF n < 3 THEN n ELSE 3

\* runQuickValidation(code, testCases) is called, with up to MaxCases + 2 test
\* cases of {input, expectedOutput}.
StartQuick ==
    /\ suite.pc = "idle"
    /\ \E n \in 0..(MaxCases + 2) :
       \E q \in [1..n -> {[input |-> "", expectedOutput |-> " 42 "],
                          [input |-> "7", expectedOutput |-> "43"]}] :
          suite' = [IdleSuite EXCEPT !.pc = "quick", !.code = SameSource,
                                     !.testCases = q, !.index = 1]
    /\ UNCHANGED <<calls, dirs, files, ml64Path, linkPath, installed, syntax, probe, lookups, user_progress, updates>>

\* for (let i = 0; i < Math.min(testCases.length, 3); i++):
\* compileAndRun(code, testCase.input, {timeout: 2000}).
QuickRun(c) ==
    /\ suite.pc = "quick"
    /\ suite.index <= quickLimit(Len(suite.testCases))
    /\ Invoke(c, {suite.code}, {suite.testCases[suite.index].input}, {FALSE}, {2000})
    /\ suite' = [suite EXCEPT
           !.pc = "quickAwait",
           !.invoked = Append(@, [input |-> suite.testCases[suite.index].input,
                                  timeout |-> 2000])]

\* compileAndRun has settled: the result of the try block, or of the catch
\* clause when it rejected, is pushed.
QuickCollect(c) ==
    /\ suite.pc = "quickAwait"
    /\ Return(c)
    /\ LET result == calls[c].outcome
           testCase == suite.testCases[suite.index]
           pushed ==
               IF result.kind = "rejected"
               THEN [input |-> testCase.input, expectedOutput |-> testCase.expectedOutput,
                     actualOutput |-> "", passed |-> FALSE, executionTime |-> 0,
                     error |-> result.error]
               ELSE [input |-> testCase.input, expectedOutput |-> testCase.expectedOutput,
                     actualOutput |-> result.output,
                     passed |-> result.success
                                /\ Trim(result.output) = Trim(testCase.expectedOutput),
                     executionTime |-> calls[c].clock, error |-> result.error]
       IN  suite' = [suite EXCEPT !.pc = "quick", !.index = @ + 1,
                                  !.judged = Append(@, result),
                                  !.results = Append(@, pushed)]

\* After the loop: the summary, with passedCount the cases counted as passed.
QuickFinish ==
    /\ suite.pc = "quick"
    /\ suite.index > quickLimit(Len(suite.testCases))
    /\ LET passedCount == Cardinality({i \in 1..Len(suite.results) : suite.results[i].passed})
       IN  suite' = [suite EXCEPT
               !.pc = "quickReturned",
               !.summary = [totalTests |-> Len(suite.results), passedTests |-> passedCount,
                            failedTests |-> Len(suite.results) - passedCount]]
    /\ UNCHANGED <<calls, dirs, files, ml64Path, linkPath, installed, syntax, probe, lookups, user_progress, updates>>

\* One run of runQuickValidation.
QuickSpec ==
    /\ SuiteInit
    /\ [][
        \/ StartQuick
        \/ QuickRun(Caller)
        \/ EnsureDir(Caller)
        \/ ValidateCode(Caller)
        \/ WriteAsm(Caller)
        \/ CompileStart(Caller)
        \/ CompileDone(Caller, PlainRuns)
        \/ AfterCompile(Caller)
        \/ LinkStart(Caller)
        \/ LinkDone(Caller, PlainRuns)
        \/ AfterLink(Caller)
        \/ Spawn(Caller, {"exits"})
        \/ SpawnThrows(Caller)
        \/ ChildClose(Caller, {"42"}, {Empty}, ExitCodes)
        \/ Finally(Caller)
        \/ QuickCollect(Caller)
        \/ QuickFinish
       ]_vars

\* C21: runQuickValidation never calls compileAndRun more than 3 times and
\* always with a timeout of 2000 ms, below the default; when it returns it has
\* min(n, 3) results, result i for test case i of the input, one compileAndRun
\* call for each of these cases in order and none for a later case, and
\* passedTests + failedTests = totalTests = the number of results.
C21_QuickJudgesFirstThree ==
    (suite.pc \in {"quick", "quickAwait", "quickReturned"}) =>
        /\ Len(suite.invoked) <= 3
        /\ \A i \in 1..Len(suite.invoked) :
              /\ suite.invoked[i].timeout = 2000
              /\ suite.invoked[i].timeout < DefaultTimeout
              /\ suite.invoked[i].input = suite.testCases[i].input
        /\ suite.pc = "quickReturned" =>
              LET n == Len(suite.testCases)
                  m == IF n < 3 THEN n ELSE 3
              IN  /\ Len(suite.results) = m
                  /\ Len(suite.invoked) = m
                  /\ \A i \in 1..m :
                        /\ suite.results[i].input = suite.testCases[i].input
                        /\ suite.results[i].expectedOutput = suite.testCases[i].expectedOutput
                  /\ suite.summary.totalTests = Len(suite.results)
                  /\ suite.summary.passedTests + suite.summary.failedTests
                         = suite.summary.totalTests

\* runQuickValidation has returned for four test cases, the third one passed.
C21_Witness ==
    /\ suite.pc = "quickReturned"
    /\ Len(suite.testCases) = 4
    /\ Len(suite.results) = 3
    /\ suite.results[3].passed
    /\ ~suite.results[1].passed

\* ------------------------------------------------------------------------
\* TestRunner.runTestSuite

\* runTestSuite after executeTestSuite has returned: gradeSubmission computes
\* the grade from the results, then lessonService.submitExercise looks the
\* exercise up and starts the loop over exercise.testCases. The exercise is
\* the one whose test cases the suite was generated from, or another one.
SubmitExercise ==
    /\ suite.pc = "returned"
    /\ \E cases \in Suites :
          suite' = [suite EXCEPT !.pc = "submit", !.index = 1, !.exerciseCases = cases]
    /\ UNCHANGED <<calls, dirs, files, ml64Path, linkPath, installed, syntax, probe, lookups, user_progress, updates>>

\* getExerciseById finds no exercise: submitExercise throws 'Exercise not
\* found', which runTestSuite logs and throws again.
SubmitUnknownExercise ==
    /\ suite.pc = "returned"
    /\ suite' = [suite EXCEPT !.pc = "thrown"]
    /\ UNCHANGED <<calls, dirs, files, ml64Path, linkPath, installed, syntax, probe, lookups, user_progress, updates>>

\* for (const testCase of exercise.testCases): runTestCase calls
\* compileAndRun(code, testCase.input, {timeout: 3000, allowSystemCalls: false}).
RunTestCase(c) ==
    /\ suite.pc = "submit"
    /\ suite.index <= Len(suite.exerciseCases)
    /\ Invoke(c, {suite.code}, {suite.exerciseCases[suite.index].input}, {FALSE}, {3000})
    /\ suite' = [suite EXCEPT
           !.pc = "submitAwait",
           !.invoked = Append(@, [input |-> suite.exerciseCases[suite.index].input,
                                  timeout |-> 3000])]

\* compileAndRun has settled: runTestCase returns its TestResult, or the catch
\* clause of the loop makes one, and it is pushed.
RunTestCaseDone(c) ==
    /\ suite.pc = "submitAwait"
    /\ Return(c)
    /\ LET result == calls[c].outcome
           testCase == suite.exerciseCases[suite.index]
           pushed ==
               IF result.kind = "rejected"
               THEN [testCaseId |-> testCase.id, passed |-> FALSE, actualOutput |-> "",
                     expectedOutput |-> testCase.expectedOutput, executionTime |-> 0,
                     error |-> result.error]
               ELSE [testCaseId |-> testCase.id,
                     passed |-> result.success
                                /\ Trim(result.output) = Trim(testCase.expectedOutput),
                     actualOutput |-> Trim(result.output),
                     expectedOutput |-> Trim(testCase.expectedOutput),
                     executionTime |-> calls[c].clock, error |-> result.error]
       IN  suite' = [suite EXCEPT !.pc = "submit", !.index = @ + 1,
                                  !.submitted = Append(@, pushed)]

\* After the loop: the submission is saved, the progress updated, and
\* runTestSuite returns its TestRunnerResult.
SubmitDone ==
    /\ suite.pc = "submit"
    /\ suite.index > Len(suite.exerciseCases)
    /\ suite' = [suite EXCEPT !.pc = "ran"]
    /\ UNCHANGED <<calls, dirs, files, ml64Path, linkPath, installed, syntax, probe, lookups, user_progress, updates>>

\* One run of runTestSuite.
RunnerSpec ==
    /\ SuiteInit
    /\ [][
        \/ StartSuite
        \/ ExecuteTestCase(Caller)
        \/ EnsureDir(Caller)
        \/ ValidateCode(Caller)
        \/ WriteAsm(Caller)
        \/ CompileStart(Caller)
        \/ CompileDone(Caller, CleanRuns)
        \/ AfterCompile(Caller)
        \/ LinkStart(Caller)
        \/ LinkDone(Caller, CleanRuns)
        \/ AfterLink(Caller)
        \/ Spawn(Caller, {"exits"})
        \/ SpawnThrows(Caller)
        \/ ChildClose(Caller, {"42"}, {Empty}, {0})
        \/ Finally(Caller)
        \/ CollectResult(Caller)
        \/ FinishSuite
        \/ SubmitExercise
        \/ SubmitUnknownExercise
        \/ RunTestCase(Caller)
        \/ RunTestCaseDone(Caller)
        \/ SubmitDone
       ]_vars

\* C22: when runTestSuite has returned, compileAndRun has been called exactly
\* once for each test case of the supplied suite, in the order of the suite,
\* and for nothing else.
C22_OncePerSuiteCase ==
    suite.pc = "ran" =>
        /\ Len(suite.invoked) = Len(suite.testCases)
        /\ \A i \in 1..Len(suite.invoked) :
              /\ i <= Len(suite.testCases)
              /\ suite.invoked[i].input = suite.testCases[i].input

\* ------------------------------------------------------------------------
\* LessonService.submitExercise and the user's progress

\* The exercises of the lesson: id, points and number of test cases.
Exercises ==
    {[id |-> "ex1", points |-> 100, testCases |-> 2],
     [id |-> "ex2", points |-> 50, testCases |-> 2]}

\* passed ? exercise.points : Math.round((passedCount / testCases.length) * points)
submissionScore(exercise, passedCount) ==
    IF passedCount = exercise.testCases THEN exercise.points
    ELSE (2 * passedCount * exercise.points + exercise.testCases) \div (2 * exercise.testCases)

\* submitExercise has judged the test cases of an exercise, passedCount of
\* them passed, and has saved the submission; updateUserProgress is called and
\* has the lesson of the exercise.
SubmitJudged(s) ==
    /\ updates[s].pc = "idle"
    /\ \E exercise \in Exercises :
       \E passedCount \in 0..exercise.testCases :
          updates' = [updates EXCEPT ![s] =
              [IdleUpdate EXCEPT !.pc = "select", !.exerciseId = exercise.id,
                                 !.passed = (passedCount = exercise.testCases),
                                 !.score = submissionScore(exercise, passedCount)]]
    /\ UNCHANGED <<probe, user_progress>>
    /\ UNCHANGED <<calls, dirs, files, ml64Path, linkPath, installed, suite, syntax, lookups>>

\* const existingProgress = await dbGet('SELECT * FROM user_progress WHERE ...').
SelectProgress(s) ==
    /\ updates[s].pc = "select"
    /\ updates' = [updates EXCEPT ![s].pc = "write", ![s].existingProgress = user_progress]
    /\ UNCHANGED <<probe, user_progress>>
    /\ UNCHANGED <<calls, dirs, files, ml64Path, linkPath, installed, suite, syntax, lookups>>

\* The rest of updateUserProgress, from the row read before: UPDATE of the
\* row with Math.max(existingProgress.score, score) and the list grown from
\* existingProgress.completed_exercises, attempts = attempts + 1 computed by
\* the database; or INSERT of a new row, which the database refuses with
\* UNIQUE(user_id, lesson_id) when the row exists by now, and submitExercise
\* rejects.
WriteProgress(s) ==
    /\ updates[s].pc = "write"
    /\ LET u == updates[s]
           old == u.existingProgress
           pushed == IF u.passed /\ \A i \in 1..Len(old.completed_exercises) :
                                        old.completed_exercises[i] # u.exerciseId
                     THEN Append(old.completed_exercises, u.exerciseId)
                     ELSE old.completed_exercises
           more == IF user_progress.attempts < MaxAttempts
                   THEN user_progress.attempts + 1 ELSE user_progress.attempts
       IN  IF old.exists
           THEN /\ user_progress' =
                      [exists |-> TRUE, completed |-> Len(pushed) > 0,
                       score |-> IF old.score > u.score THEN old.score ELSE u.score,
                       attempts |-> more, completed_exercises |-> pushed]
                /\ updates' = [updates EXCEPT ![s].pc = "idle", ![s].settled = "returned"]
           ELSE IF user_progress.exists
           THEN /\ user_progress' = user_progress
                /\ updates' = [updates EXCEPT ![s].pc = "idle", ![s].settled = "rejected"]
           ELSE /\ user_progress' =
                      [exists |-> TRUE, completed |-> u.passed, score |-> u.score,
                       attempts |-> 1,
                       completed_exercises |-> IF u.passed THEN <<u.exerciseId>> ELSE <<>>]
                /\ updates' = [updates EXCEPT ![s].pc = "idle", ![s].settled = "returned"]
    /\ UNCHANGED <<probe>>
    /\ UNCHANGED <<calls, dirs, files, ml64Path, linkPath, installed, suite, syntax, lookups>>

\* No progress is stored and no request is being handled.
ProgressInit == IdleProgram /\ probe = NoProbe

\* Requests of one user for the exercises of one lesson, each handled by its
\* own call of submitExercise; the calls interleave at their awaits.
ProgressSpec ==
    /\ ProgressInit
    /\ [][\E s \in Calls : SubmitJudged(s) \/ SelectProgress(s) \/ WriteProgress(s)]_vars

\* C29: the stored progress never regresses: the row stays, its score never
\* decreases, the completed flag is never reset and no exercise leaves
\* completed_exercises.
C29_ProgressNeverRegresses ==
    [][user_progress.exists =>
          /\ user_progress'.exists
          /\ user_progress'.score >= user_progress.score
          /\ user_progress.completed => user_progress'.completed
          /\ \A i \in 1..Len(user_progress.completed_exercises) :
                \E j \in 1..Len(user_progress'.completed_exercises) :
                    user_progress'.completed_exercises[j] = user_progress.completed_exercises[i]
      ]_vars

\* ------------------------------------------------------------------------
\* TestingService.calculateGrade

\* TestCaseGenerator.getDefaultGradingCriteria(testType).
getDefaultGradingCriteria(testType) ==
    LET baseCriteria ==
            [outputWeight |-> 40, performanceWeight |-> 20, codeQualityWeight |-> 20,
             securityWeight |-> 20,
             bonusPoints |-> [earlyCompletion |-> 5, efficientCode |-> 5, cleanCode |-> 5]]
    IN  CASE testType = "performance_test" ->
                 [baseCriteria EXCEPT !.performanceWeight = 40, !.outputWeight = 30]
          [] testType = "security_test" ->
                 [baseCriteria EXCEPT !.securityWeight = 40, !.outputWeight = 30]
          [] testType = "code_quality" ->
                 [baseCriteria EXCEPT !.codeQualityWeight = 40, !.outputWeight = 30]
          [] OTHER -> baseCriteria

\* calculateGrade(results, criteria, code) with calculatePerformanceScore,
\* calculateQualityScore, calculateSecurityScore and calculateBonusScore:
\* score, maxScore and percentage of the Grade.
calculateGrade(results, criteria, code) ==
    LET Count(P(_)) == Cardinality({i \in 1..Len(results) : P(results[i])})
        Passed(r) == r.passed
        Safe(r) == r.passed /\ r.error = Empty
        Fast(r) == r.executionTime < 100
        Sum[i \in 0..Len(results)] ==
            IF i = 0 THEN 0 ELSE Sum[i - 1] + results[i].executionTime
        Min(a, b) == IF a < b THEN a ELSE b
        Max(a, b) == IF a > b THEN a ELSE b
        passedTests == Count(Passed)
        totalTests == Len(results)
        \* calculatePerformanceScore: avgTime < t  <=>  sum < t * length
        performance ==
            IF totalTests = 0 THEN 0
            ELSE IF Sum[totalTests] < 50 * totalTests THEN 20
            ELSE IF Sum[totalTests] < 100 * totalTests THEN 15
            ELSE IF Sum[totalTests] < 200 * totalTests THEN 10
            ELSE IF Sum[totalTests] < 500 * totalTests THEN 5
            ELSE 0
        \* calculateQualityScore
        lines == LinesOfCode(code)
        commentLines ==
            Cardinality({l \in 1..Len(code) : code[l].words # <<>> /\ code[l].words[1] = ";"})
        uniqueInstructions ==
            Cardinality({ToLowerWord(code[p[1]].words[p[2]]) : p \in WordsOf(code)}
                        \cap {"mov", "add", "sub", "mul", "div", "push", "pop", "call",
                              "ret", "jmp"})
        quality ==
            Max(0, Min(20, 10 + (IF lines < 10 THEN 5 ELSE IF lines > 50 THEN -5 ELSE 0)
                              + (IF commentLines > 0 THEN Min(commentLines * 2, 10) ELSE 0)
                              + Min(uniqueInstructions, 10)))
        \* calculateBonusScore
        hasComments == \E p \in WordsOf(code) : code[p[1]].words[p[2]] = ";"
        noExtraSpaces == \A l \in 1..Len(code) : code[l].words = <<>> \/ code[l].indent < 2
        bonus ==
            (IF Count(Fast) = totalTests THEN criteria.bonusPoints.earlyCompletion ELSE 0)
            + (IF lines < 15 /\ passedTests = totalTests
               THEN criteria.bonusPoints.efficientCode ELSE 0)
            + (IF hasComments /\ noExtraSpaces THEN criteria.bonusPoints.cleanCode ELSE 0)
        outputScore == Times(Divide(passedTests, totalTests), Number(criteria.outputWeight))
        performanceScore == Number(performance * criteria.performanceWeight)
        qualityScore == Number(quality * criteria.codeQualityWeight)
        securityScore ==
            Times(Times(Divide(Count(Safe), totalTests), Number(20)),
                  Number(criteria.securityWeight))
        totalScore ==
            Add(Add(Add(Add(outputScore, performanceScore), qualityScore), securityScore),
                Number(bonus))
        maxScore == criteria.outputWeight + criteria.performanceWeight
                    + criteria.codeQualityWeight + criteria.securityWeight + 20
        percentage == Times(Times(totalScore, Rational(1, maxScore)), Number(100))
    IN  [score |-> Round(totalScore), maxScore |-> Number(maxScore),
         percentage |-> Round(percentage)]

\* executeTestSuite has the results of a suite with at least one test case,
\* whose gradingCriteria the generator made for its test type.
CalculateInit ==
    /\ IdleProgram
    /\ probe \in {[op |-> "calculateGrade", code |-> c, results |-> rs, testType |-> t,
                   returned |-> FALSE, grade |-> [score |-> NaN, maxScore |-> NaN,
                                                  percentage |-> NaN]]
                    : c \in Programs, t \in TestTypes,
                      rs \in UNION {[1..n -> TestResults] : n \in 1..MaxCases}}

\* const grade = this.calculateGrade(results, configuration.gradingCriteria, code).
CalculateGrade ==
    /\ probe.op = "calculateGrade"
    /\ ~probe.returned
    /\ probe' = [probe EXCEPT
           !.returned = TRUE,
           !.grade = calculateGrade(probe.results, getDefaultGradingCriteria(probe.testType),
                                    probe.code)]
    /\ UNCHANGED programVars

CalculateSpec == CalculateInit /\ [][CalculateGrade]_vars

\* C30: the Grade of calculateGrade has 0 <= score <= maxScore and
\* 0 <= percentage <= 100.
C30_GradeWithinBounds ==
    (probe.op = "calculateGrade" /\ probe.returned) =>
        /\ AtLeast(probe.grade.score, Number(0))
        /\ AtLeast(probe.grade.maxScore, probe.grade.score)
        /\ AtLeast(probe.grade.percentage, Number(0))
        /\ AtLeast(Number(100), probe.grade.percentage)

====
